---- MODULE Spec2Model ----
(***************************************************************************)
(* The SOAP protocol adapter of the SQL workbench (services/soapService)   *)
(* and the tab state of its App component.                                 *)
(*                                                                         *)
(* JavaScript strings are TLA+ strings: Len, SubSeq and \o act on them as  *)
(* length, substring and concatenation.  A character is a string of        *)
(* length one.                                                             *)
(***************************************************************************)
EXTENDS Integers, Sequences, FiniteSets, TLC

VARIABLES
  enc,                 \* the locals of one call of prepareSqlParameters
  dec,                 \* the locals of the response half of one call of executeSoapQuery
  par,                 \* the locals of one call of parseOracleXML
  req,                 \* the locals of the request half of one call of executeSoapQuery
  b64,                 \* a text on its way through encodeBase64 and decodeBase64
  modal,               \* SettingsModal: the connections, selectedId and editConfig states
  tabs,                \* App: the tabs state
  activeTabId,         \* App: the activeTabId state
  savedConnections,    \* App: the savedConnections state
  activeConnectionId,  \* App: the activeConnectionId state
  isSettingsOpen,      \* App: the isSettingsOpen state
  inflight,            \* the calls of handleRun suspended at await executeSoapQuery
  explaining,          \* the calls of handleExplainError suspended at await explainError
  made                 \* how many ids generateId has made, and commands the user has given

appVars == <<tabs, activeTabId, savedConnections, activeConnectionId,
             isSettingsOpen, inflight, explaining, made>>

vars == <<enc, dec, par, req, b64, modal, appVars>>

(***************************************************************************)
(* Bounds of the model.                                                    *)
(***************************************************************************)
\* longest generated SQL text over SqlChars
MaxSqlLen == 3
\* the long statements reach up to this many multiples of CHUNK_SIZE
MaxChunkTarget == 10
\* a generated response body holds up to this many fragments inside its envelope
MaxFragments == 2
\* a generated report holds up to this many cells and row breaks
MaxInnerCells == 4
\* longest text sent through encodeBase64 and back
MaxTextLen == 3
\* commands the user gives in one session: new tabs, edits, runs, explanations
MaxCommands == 4

(***************************************************************************)
(* Strings and characters.                                                 *)
(***************************************************************************)
Min(a, b) == IF a < b THEN a ELSE b

CharAt(s, i) == SubSeq(s, i, i)

\* the least element of a non-empty set of numbers
SetMin(S) == CHOOSE m \in S : \A x \in S : m <= x

\* the code units 32..95 and 97..126, in order
AsciiLo == " !\"#$%&'()*+,-./0123456789:;<=>?@ABCDEFGHIJKLMNOPQRSTUVWXYZ[\\]^_"
AsciiHi == "abcdefghijklmnopqrstuvwxyz{|}~"
\* U+FFFD, what TextDecoder puts for a malformed byte sequence
ReplacementChar == "�"
\* U+FEFF, the byte order mark (the character between the quotes has no width)
ByteOrderMark == "﻿"

CodePairs ==
  { <<CharAt(AsciiLo, i), i + 31>> : i \in 1..Len(AsciiLo) }
    \cup { <<CharAt(AsciiHi, i), i + 96>> : i \in 1..Len(AsciiHi) }
    \cup { <<"\t", 9>>, <<"\n", 10>>, <<"\r", 13>>,
           <<"©", 169>>, <<"Ã", 195>>, <<"é", 233>>,
           <<ByteOrderMark, 65279>>, <<ReplacementChar, 65533>> }

\* the characters of the model and their code points
CharCode == [c \in { p[1] : p \in CodePairs } |-> (CHOOSE p \in CodePairs : p[1] = c)[2]]
CodeChar == [n \in { p[2] : p \in CodePairs } |-> (CHOOSE p \in CodePairs : p[2] = n)[1]]

\* String.prototype.trim removes white space and line terminators at both ends
WhiteSpace == {" ", "\t", "\n", "\r", ByteOrderMark}

RECURSIVE trimStart(_)
trimStart(s) ==
  IF Len(s) > 0 /\ CharAt(s, 1) \in WhiteSpace THEN trimStart(SubSeq(s, 2, Len(s))) ELSE s

RECURSIVE trimEnd(_)
trimEnd(s) ==
  IF Len(s) > 0 /\ CharAt(s, Len(s)) \in WhiteSpace THEN trimEnd(SubSeq(s, 1, Len(s) - 1)) ELSE s

trim(s) == trimEnd(trimStart(s))

endsWith(s, suffix) ==
  Len(s) >= Len(suffix) /\ SubSeq(s, Len(s) - Len(suffix) + 1, Len(s)) = suffix

startsWith(s, prefix) ==
  Len(s) >= Len(prefix) /\ SubSeq(s, 1, Len(prefix)) = prefix

\* s.substring(from, to) with 0 <= from <= to: positions from..to-1, cut at the end of s
substring(s, from, to) == SubSeq(s, Min(from, Len(s)) + 1, Min(to, Len(s)))

\* s.slice(0, -1)
sliceLast(s) == SubSeq(s, 1, Len(s) - 1)

RECURSIVE Repeat(_, _)
Repeat(s, n) ==
  IF n = 0 THEN ""
  ELSE IF n % 2 = 1 THEN s \o Repeat(s, n - 1)
  ELSE LET r == Repeat(s, n \div 2) IN r \o r

(***************************************************************************)
(* encodeBase64: TextEncoder (UTF-8), then btoa over the byte string.      *)
(* Long inputs are split in halves so that the evaluation stays shallow;   *)
(* the value is that of the left-to-right pass.                            *)
(***************************************************************************)
Utf8OfCodePoint(cp) ==
  IF cp < 128 THEN <<cp>>
  ELSE IF cp < 2048 THEN <<192 + (cp \div 64), 128 + (cp % 64)>>
  ELSE <<224 + (cp \div 4096), 128 + ((cp \div 64) % 64), 128 + (cp % 64)>>

RECURSIVE TextEncode(_)
TextEncode(s) ==
  IF Len(s) = 0 THEN <<>>
  ELSE IF Len(s) = 1 THEN Utf8OfCodePoint(CharCode[s])
  ELSE LET h == Len(s) \div 2
       IN TextEncode(SubSeq(s, 1, h)) \o TextEncode(SubSeq(s, h + 1, Len(s)))

B64Alphabet == "ABCDEFGHIJKLMNOPQRSTUVWXYZabcdefghijklmnopqrstuvwxyz0123456789+/"
Sextet(n) == CharAt(B64Alphabet, n + 1)

\* one group of at most three bytes, padded with '='
Quantum(b) ==
  IF Len(b) = 0 THEN ""
  ELSE IF Len(b) = 1 THEN
    Sextet(b[1] \div 4) \o Sextet((b[1] % 4) * 16) \o "=="
  ELSE IF Len(b) = 2 THEN
    Sextet(b[1] \div 4) \o Sextet((b[1] % 4) * 16 + b[2] \div 16)
      \o Sextet((b[2] % 16) * 4) \o "="
  ELSE
    Sextet(b[1] \div 4) \o Sextet((b[1] % 4) * 16 + b[2] \div 16)
      \o Sextet((b[2] % 16) * 4 + b[3] \div 64) \o Sextet(b[3] % 64)

RECURSIVE btoa(_)
btoa(b) ==
  IF Len(b) <= 3 THEN Quantum(b)
  ELSE LET h == 3 * (((Len(b) + 2) \div 3) \div 2)
       IN btoa(SubSeq(b, 1, h)) \o btoa(SubSeq(b, h + 1, Len(b)))

encodeBase64(str) == btoa(TextEncode(str))

(***************************************************************************)
(* decodeBase64: atob, then TextDecoder (UTF-8, not fatal).                *)
(***************************************************************************)
AsciiWhitespace == {" ", "\t", "\n", "\r"}
B64Chars == { CharAt(B64Alphabet, i) : i \in 1..Len(B64Alphabet) }
B64Value == [c \in B64Chars |-> (CHOOSE i \in 1..Len(B64Alphabet) : CharAt(B64Alphabet, i) = c) - 1]

RECURSIVE RemoveAsciiWhitespace(_)
RemoveAsciiWhitespace(s) ==
  IF Len(s) = 0 THEN ""
  ELSE IF Len(s) = 1 THEN (IF s \in AsciiWhitespace THEN "" ELSE s)
  ELSE LET h == Len(s) \div 2
       IN RemoveAsciiWhitespace(SubSeq(s, 1, h)) \o RemoveAsciiWhitespace(SubSeq(s, h + 1, Len(s)))

\* the bytes of a run of Base64 characters without padding, length % 4 # 1
RECURSIVE DecodeSextets(_)
DecodeSextets(d) ==
  IF Len(d) < 2 THEN <<>>
  ELSE LET v(k) == B64Value[CharAt(d, k)]
       IN IF Len(d) = 2 THEN << v(1) * 4 + v(2) \div 16 >>
          ELSE IF Len(d) = 3 THEN << v(1) * 4 + v(2) \div 16, (v(2) % 16) * 16 + v(3) \div 4 >>
          ELSE << v(1) * 4 + v(2) \div 16, (v(2) % 16) * 16 + v(3) \div 4, (v(3) % 4) * 64 + v(4) >>
                 \o DecodeSextets(SubSeq(d, 5, Len(d)))

\* atob: ok is FALSE where atob throws InvalidCharacterError
atob(str) ==
  LET d0 == RemoveAsciiWhitespace(str)
      d1 == IF Len(d0) % 4 = 0
            THEN (IF endsWith(d0, "==") THEN SubSeq(d0, 1, Len(d0) - 2)
                  ELSE IF endsWith(d0, "=") THEN SubSeq(d0, 1, Len(d0) - 1)
                  ELSE d0)
            ELSE d0
  IN IF Len(d1) % 4 = 1 \/ \E k \in 1..Len(d1) : CharAt(d1, k) \notin B64Chars
     THEN [ok |-> FALSE, bytes |-> <<>>]
     ELSE [ok |-> TRUE, bytes |-> DecodeSextets(d1)]

\* a code point as a character; code points outside the model's characters
\* are shown as U+FFFD
CharOfCode(cp) == IF cp \in DOMAIN CodeChar THEN CodeChar[cp] ELSE ReplacementChar

IsContinuation(b) == b >= 128 /\ b <= 191

\* UTF-8 decoding that replaces a malformed sequence by U+FFFD and goes on;
\* sequences of four bytes lie outside the model's characters
RECURSIVE DecodeRun(_)
DecodeRun(b) ==
  IF Len(b) = 0 THEN ""
  ELSE IF b[1] < 128 THEN CharOfCode(b[1]) \o DecodeRun(Tail(b))
  ELSE IF b[1] >= 194 /\ b[1] <= 223 /\ Len(b) >= 2 /\ IsContinuation(b[2])
    THEN CharOfCode((b[1] - 192) * 64 + (b[2] - 128)) \o DecodeRun(SubSeq(b, 3, Len(b)))
  ELSE IF b[1] >= 224 /\ b[1] <= 239 /\ Len(b) >= 3 /\ IsContinuation(b[2]) /\ IsContinuation(b[3])
          /\ (b[1] = 224 => b[2] >= 160) /\ (b[1] = 237 => b[2] <= 159)
    THEN CharOfCode((b[1] - 224) * 4096 + (b[2] - 128) * 64 + (b[3] - 128))
           \o DecodeRun(SubSeq(b, 4, Len(b)))
  ELSE ReplacementChar \o DecodeRun(Tail(b))

\* the bytes are cut before a byte that is no continuation byte (a sequence
\* always starts there) and the halves decoded on their own
RECURSIVE DecodeBytes(_)
DecodeBytes(b) ==
  LET starts == { k \in (Len(b) \div 2 + 1)..Len(b) : ~IsContinuation(b[k]) }
  IN IF Len(b) <= 4 \/ starts = {} THEN DecodeRun(b)
     ELSE DecodeBytes(SubSeq(b, 1, SetMin(starts) - 1))
            \o DecodeBytes(SubSeq(b, SetMin(starts), Len(b)))

\* new TextDecoder().decode(bytes): ignoreBOM is false, so a byte order mark
\* EF BB BF at the start of the bytes is consumed and not part of the output
TextDecode(b) ==
  IF Len(b) >= 3 /\ SubSeq(b, 1, 3) = <<239, 187, 191>>
  THEN DecodeBytes(SubSeq(b, 4, Len(b)))
  ELSE DecodeBytes(b)

\* variant: the catch block is missing, the exception of atob escapes
decodeBase64Throws(str) ==
  LET bin == atob(str)
  IN IF bin.ok THEN [threw |-> FALSE, value |-> TextDecode(bin.bytes)]
     ELSE [threw |-> TRUE, value |-> ""]

\* try { atob; TextDecoder.decode } catch { return "" }
decodeBase64(str) ==
  LET bin == atob(str)
  IN IF bin.ok THEN [threw |-> FALSE, value |-> TextDecode(bin.bytes)]
     ELSE [threw |-> FALSE, value |-> ""]


(***************************************************************************)
(* DOMParser.parseFromString(text, "text/xml").                            *)
(*                                                                         *)
(* The grammar of the model: start tags <name> and <name attributes>, end  *)
(* tags </name>, empty elements <name/>, and character data.  A prefixed   *)
(* name such as v2:reportBytes is taken to have its namespace declared.    *)
(* A document is the sequence of its elements in document order; an        *)
(* element has its qualified name, the index of its parent (0 for the      *)
(* document element) and its textContent.                                  *)
(***************************************************************************)
\* the first position >= from where sub starts in s, 0 if there is none
indexOf(s, sub, from) ==
  LET at == { k \in from..(Len(s) - Len(sub) + 1) : SubSeq(s, k, k + Len(sub) - 1) = sub }
  IN IF at = {} THEN 0 ELSE SetMin(at)

\* the first position >= from of character c in s, 0 if there is none
indexOfChar(s, c, from) == indexOf(s, c, from)

NameStartChars ==
  { CharAt(AsciiHi, i) : i \in 1..26 } \cup { CharAt(AsciiLo, i) : i \in 34..59 } \cup {"_"}
NameChars ==
  NameStartChars \cup { CharAt(AsciiLo, i) : i \in 17..26 } \cup {"-", ".", ":"}

ValidName(name) ==
  /\ Len(name) > 0
  /\ CharAt(name, 1) \in NameStartChars
  /\ \A k \in 1..Len(name) : CharAt(name, k) \in NameChars

\* txt added to the textContent of every open element
AddText(elems, stack, txt) ==
  [k \in 1..Len(elems) |->
     IF \E j \in 1..Len(stack) : stack[j] = k
     THEN [elems[k] EXCEPT !.text = @ \o txt]
     ELSE elems[k]]

RECURSIVE XmlScan(_, _, _, _, _)
\* reads s from pos on; stack holds the open elements, rootClosed says that the
\* document element has ended.  ok is FALSE at the first well-formedness error,
\* and elems are then the elements begun before it.
XmlScan(s, pos, stack, elems, rootClosed) ==
  IF pos > Len(s) THEN [ok |-> Len(stack) = 0 /\ rootClosed, elems |-> elems]
  ELSE IF CharAt(s, pos) = "<" THEN
    LET gt      == indexOfChar(s, ">", pos + 1)
        content == SubSeq(s, pos + 1, gt - 1)
    IN IF gt = 0 THEN [ok |-> FALSE, elems |-> elems]
       ELSE IF startsWith(content, "/") THEN
         LET name == SubSeq(content, 2, Len(content))
         IN IF Len(stack) = 0 \/ elems[stack[Len(stack)]].name # name
            THEN [ok |-> FALSE, elems |-> elems]
            ELSE XmlScan(s, gt + 1, SubSeq(stack, 1, Len(stack) - 1), elems,
                         rootClosed \/ Len(stack) = 1)
       ELSE
         LET selfClosing == endsWith(content, "/")
             core   == IF selfClosing THEN sliceLast(content) ELSE content
             sp     == indexOfChar(core, " ", 1)
             name   == IF sp = 0 THEN core ELSE SubSeq(core, 1, sp - 1)
             parent == IF Len(stack) = 0 THEN 0 ELSE stack[Len(stack)]
             added  == Append(elems, [name |-> name, parent |-> parent, text |-> ""])
         IN IF ~ValidName(name) \/ (Len(stack) = 0 /\ (rootClosed \/ Len(elems) > 0))
            THEN [ok |-> FALSE, elems |-> elems]
            ELSE IF selfClosing
              THEN XmlScan(s, gt + 1, stack, added, rootClosed \/ Len(stack) = 0)
              ELSE XmlScan(s, gt + 1, Append(stack, Len(added)), added, rootClosed)
  ELSE
    LET lt  == indexOfChar(s, "<", pos)
        end == IF lt = 0 THEN Len(s) ELSE lt - 1
        txt == SubSeq(s, pos, end)
    IN IF Len(stack) = 0
       THEN IF \A k \in 1..Len(txt) : CharAt(txt, k) \in WhiteSpace
            THEN XmlScan(s, end + 1, stack, elems, rootClosed)
            ELSE [ok |-> FALSE, elems |-> elems]
       ELSE XmlScan(s, end + 1, stack, AddText(elems, stack, txt), rootClosed)

WellFormed(s) == XmlScan(s, 1, <<>>, <<>>, FALSE).ok

ParserErrorText == "error on line 1"
ParserErrorElement(parent) == [name |-> "parsererror", parent |-> parent, text |-> ParserErrorText]

\* the document that holds nothing but the error report
ErrorDocument == [elems |-> << ParserErrorElement(0) >>]

\* the document that keeps what was read before the error, with the error
\* report as the first child of the document element
PartialErrorDocument(elems) ==
  IF Len(elems) = 0 THEN ErrorDocument
  ELSE [elems |->
          << [elems[1] EXCEPT !.text = ParserErrorText \o @] >>
            \o << ParserErrorElement(1) >>
            \o [k \in 1..(Len(elems) - 1) |->
                  [elems[k + 1] EXCEPT !.parent = IF @ = 1 THEN 1 ELSE @ + 1]]]

\* The documents parseFromString may return for s.  For a text that is not
\* well-formed the result depends on the browser: the error report alone, or
\* the error report inside what was read before the error.
parseFromString(s) ==
  LET r == XmlScan(s, 1, <<>>, <<>>, FALSE)
  IN IF r.ok THEN { [elems |-> r.elems] }
     ELSE { ErrorDocument, PartialErrorDocument(r.elems) }

\* doc.getElementsByTagName(name): the indices of the elements of that
\* qualified name, in document order
getElementsByTagName(doc, name) ==
  LET idx == { k \in 1..Len(doc.elems) : doc.elems[k].name = name }
      RECURSIVE Ordered(_, _)
      Ordered(k, acc) ==
        IF k > Len(doc.elems) THEN acc
        ELSE Ordered(k + 1, IF k \in idx THEN Append(acc, k) ELSE acc)
  IN Ordered(1, <<>>)

\* element.children: the child elements in document order
children(doc, e) ==
  LET RECURSIVE Ordered(_, _)
      Ordered(k, acc) ==
        IF k > Len(doc.elems) THEN acc
        ELSE Ordered(k + 1, IF doc.elems[k].parent = e THEN Append(acc, k) ELSE acc)
  IN Ordered(1, <<>>)

\* list[0] || ... : the first entry of a list, 0 (undefined) if it is empty
First(list) == IF Len(list) = 0 THEN 0 ELSE list[1]
\* a || b for element references
OrElse(a, b) == IF a # 0 THEN a ELSE b


(***************************************************************************)
(* What a call of executeSoapQuery ends with: an Error thrown (message) or *)
(* a QueryResult returned.                                                 *)
(***************************************************************************)
\* site names the throw statement the Error comes from
NoResult == [columns |-> <<>>, rows |-> <<>>, rawXml |-> "", executionTimeMs |-> 0]
Pending == [kind |-> "none", site |-> "", message |-> "", result |-> NoResult]
Threw(site, message) == [kind |-> "error", site |-> site, message |-> message, result |-> NoResult]
Returned(result) == [kind |-> "result", site |-> "", message |-> "", result |-> result]

\* the failure kinds of the adapter, by throw statement
ErrorKind(site) ==
  CASE site = "fetch"         -> "NetworkError"
    [] site = "not-ok"        -> "HttpError"
    [] site = "fault"         -> "ServerFault"
    [] site = "no-payload"    -> "EmptyPayload"
    [] site = "inner-parse"   -> "MalformedReportXml"
    [] OTHER                  -> "Uncaught"

MsgCors ==
  "Network Error: Failed to fetch.\n\n"
    \o "Cause: This is likely a Cross-Origin (CORS) restriction by the browser.\n"
    \o "Solution: Go to Settings and configure a CORS Proxy (e.g. https://corsproxy.io)."
MsgNoReportBytes ==
  "No 'reportBytes' found in response. The report might have failed to generate output or the user permissions are insufficient."
MsgParseError == "Error parsing response XML from Oracle."
MsgFaultPrefix == "Oracle SOAP Fault: "
MsgHttpPrefix(status) == "Server returned " \o ToString(status) \o ": "

(***************************************************************************)
(* parseOracleXML(xmlString); xmlDoc is the document the parser returned   *)
(* for xmlString.                                                          *)
(***************************************************************************)
\* variant: every row is given the keys of all the cells of the document
RowDataAllColumns(xmlDoc, row) ==
  LET cols  == children(xmlDoc, row)
      names == { xmlDoc.elems[k].name : k \in { c \in 1..Len(xmlDoc.elems) :
                   xmlDoc.elems[c].parent # 0 /\ xmlDoc.elems[c].parent # 1 } }
      own(n) == { j \in 1..Len(cols) : xmlDoc.elems[cols[j]].name = n }
  IN [n \in names |-> IF own(n) = {} THEN "" ELSE xmlDoc.elems[cols[SetMin(own(n))]].text]

\* rowData after the loop over row.children: a later child of the same name
\* overwrites an earlier one
RowData(xmlDoc, row) ==
  LET cols  == children(xmlDoc, row)
      names == { xmlDoc.elems[cols[j]].name : j \in 1..Len(cols) }
      last(n) == CHOOSE j \in 1..Len(cols) :
                   /\ xmlDoc.elems[cols[j]].name = n
                   /\ \A k \in (j + 1)..Len(cols) : xmlDoc.elems[cols[k]].name # n
  IN [n \in names |-> xmlDoc.elems[cols[last(n)]].text]

RECURSIVE AddColumnsNewestFirst(_, _, _, _)
\* variant: a new name is put before the names it found
AddColumnsNewestFirst(xmlDoc, cols, j, columns) ==
  IF j > Len(cols) THEN columns
  ELSE LET colName == xmlDoc.elems[cols[j]].name
       IN AddColumnsNewestFirst(xmlDoc, cols, j + 1,
            IF \E k \in 1..Len(columns) : columns[k] = colName
            THEN columns ELSE <<colName>> \o columns)

RECURSIVE AddColumns(_, _, _, _)
\* columnsSet.add(colName) for the children j.. of a row: a Set keeps the order
\* of first insertion
AddColumns(xmlDoc, cols, j, columns) ==
  IF j > Len(cols) THEN columns
  ELSE LET colName == xmlDoc.elems[cols[j]].name
       IN AddColumns(xmlDoc, cols, j + 1,
            IF \E k \in 1..Len(columns) : columns[k] = colName
            THEN columns ELSE Append(columns, colName))

RECURSIVE RowLoop(_, _, _, _, _)
RowLoop(xmlDoc, rows, i, resultRows, columns) ==
  IF i > Len(rows) THEN [rows |-> resultRows, columns |-> columns]
  ELSE RowLoop(xmlDoc, rows, i + 1,
               Append(resultRows, RowData(xmlDoc, rows[i])),
               AddColumns(xmlDoc, children(xmlDoc, rows[i]), 1, columns))

parseOracleXML(xmlString, xmlDoc) ==
  IF Len(getElementsByTagName(xmlDoc, "parsererror")) > 0
  THEN Threw("inner-parse", MsgParseError)
  ELSE LET rows == children(xmlDoc, 1)
       IN IF Len(rows) = 0
          THEN Returned([columns |-> <<>>, rows |-> <<>>, rawXml |-> xmlString,
                         executionTimeMs |-> 0])
          ELSE LET out == RowLoop(xmlDoc, rows, 1, <<>>, <<>>)
               IN Returned([columns |-> out.columns, rows |-> out.rows,
                            rawXml |-> xmlString, executionTimeMs |-> 0])

(***************************************************************************)
(* executeSoapQuery from the answer of fetch on.                           *)
(***************************************************************************)
\* response.ok
IsOk(status) == status >= 200 /\ status <= 299

\* fetch rejected with error: the catch block
FetchError(error) ==
  IF error.name = "TypeError" /\ error.message = "Failed to fetch"
  THEN Threw("fetch", MsgCors)
  ELSE Threw("fetch", error.message)

\* text.match(/<faultstring>(.*?)<\/faultstring>/s): the group, "" without a match
FaultMatch(text) ==
  LET open  == indexOf(text, "<faultstring>", 1)
      close == IF open = 0 THEN 0 ELSE indexOf(text, "</faultstring>", open + 13)
  IN IF close = 0 THEN "" ELSE SubSeq(text, open + 13, close - 1)

\* variant: a response that is not ok is answered with an empty result
HttpErrorSwallowed(status, text) == Returned(NoResult)

\* variant: the raw body is reported even when it holds a fault string
HttpErrorRawBody(status, text) == Threw("not-ok", MsgHttpPrefix(status) \o text)

\* the branch if (!response.ok)
HttpError(status, text) ==
  IF FaultMatch(text) # ""
  THEN Threw("not-ok", MsgHttpPrefix(status) \o FaultMatch(text))
  ELSE Threw("not-ok", MsgHttpPrefix(status) \o text)

\* variant: soapenv:Fault is looked for before faultstring
FaultNodeFaultFirst(doc) ==
  OrElse(First(getElementsByTagName(doc, "soapenv:Fault")),
         First(getElementsByTagName(doc, "faultstring")))

\* variant: the fault is looked for only in a document without a payload
FaultNodeUnlessPayload(doc) ==
  IF \E k \in 1..Len(doc.elems) :
       /\ doc.elems[k].name \in {"reportBytes", "v2:reportBytes", "ns2:reportBytes"}
       /\ doc.elems[k].text # ""
  THEN 0
  ELSE OrElse(First(getElementsByTagName(doc, "faultstring")),
              First(getElementsByTagName(doc, "soapenv:Fault")))

\* the element fault, 0 if there is none
FaultNode(doc) ==
  OrElse(First(getElementsByTagName(doc, "faultstring")),
         First(getElementsByTagName(doc, "soapenv:Fault")))

\* variant: the prefixed spellings are tried first
ReportBytesNodePrefixedFirst(doc) ==
  OrElse(First(getElementsByTagName(doc, "v2:reportBytes")),
         OrElse(First(getElementsByTagName(doc, "ns2:reportBytes")),
                First(getElementsByTagName(doc, "reportBytes"))))

\* the element reportBytesNode, 0 if there is none
ReportBytesNode(doc) ==
  OrElse(First(getElementsByTagName(doc, "reportBytes")),
         OrElse(First(getElementsByTagName(doc, "v2:reportBytes")),
                First(getElementsByTagName(doc, "ns2:reportBytes"))))

\* !reportBytesNode || !reportBytesNode.textContent
NoPayload(doc) ==
  IF ReportBytesNode(doc) = 0 THEN TRUE ELSE doc.elems[ReportBytesNode(doc)].text = ""

\* Math.round(performance.now() - startTime)
ElapsedMs == {0, 42}


(***************************************************************************)
(* prepareSqlParameters(sql, rowLimit)                                     *)
(***************************************************************************)
CHUNK_SIZE == 32767
\* the report's data model has the parameters q1..q9
MAX_SLOTS == 9

\* variant: a second trailing semicolon is dropped too
SanitizeTwoSemicolons(sql) ==
  LET t == trim(sql)
  IN IF endsWith(t, ";;") THEN sliceLast(sliceLast(t))
     ELSE IF endsWith(t, ";") THEN sliceLast(t) ELSE t

\* 0. trim, then drop one trailing semicolon
Sanitize(sql) ==
  LET cleanSql == trim(sql)
  IN IF endsWith(cleanSql, ";") THEN sliceLast(cleanSql) ELSE cleanSql

\* variant: the wrapper applied twice
WrapSqlTwice(cleanSql, rowLimit) ==
  "SELECT * FROM (" \o "SELECT * FROM (" \o cleanSql \o ") WHERE rownum <= "
     \o ToString(rowLimit) \o ") WHERE rownum <= " \o ToString(rowLimit)

\* 1. the row-limit wrapper
WrapSql(cleanSql, rowLimit) ==
  "SELECT * FROM (" \o cleanSql \o ") WHERE rownum <= " \o ToString(rowLimit)

\* 3. the loop: for (let i = 0; i < totalLen; i += CHUNK_SIZE)
ChunkIndex(i) == i \div CHUNK_SIZE

\* variant: the break compares with > instead of >=
LoopRunsOneMore(i, totalLen) == i < totalLen /\ ~(ChunkIndex(i) > MAX_SLOTS)

\* the loop runs its body: i < totalLen and no break at chunkIndex >= 9
LoopRuns(i, totalLen) == i < totalLen /\ ~(ChunkIndex(i) >= MAX_SLOTS)

ChunkAt(base64Sql, i) == substring(base64Sql, i, i + CHUNK_SIZE)

\* variant: names counted from q0
ParamNameZeroBased(chunkIndex) == "q" \o ToString(chunkIndex)
ParamName(chunkIndex) == "q" \o ToString(chunkIndex + 1)

ParamItem(paramName, chunk) ==
  "\n        <v2:item>\n            <v2:name>" \o paramName
    \o "</v2:name>\n            <v2:values>\n                <v2:item>" \o chunk
    \o "</v2:item>\n            </v2:values>\n        </v2:item>"

\* The loop's state: i, paramXml, and the (paramName, chunk) pairs appended so far.
LoopStart == [i |-> 0, paramXml |-> "", emitted |-> <<>>]

LoopBody(l, base64Sql) ==
  LET paramName == ParamName(ChunkIndex(l.i))
      chunk     == ChunkAt(base64Sql, l.i)
  IN [i        |-> l.i + CHUNK_SIZE,
      paramXml |-> l.paramXml \o ParamItem(paramName, chunk),
      emitted  |-> Append(l.emitted, [name |-> paramName, chunk |-> chunk])]

RECURSIVE ChunkLoop(_, _)
ChunkLoop(l, base64Sql) ==
  IF LoopRuns(l.i, Len(base64Sql)) THEN ChunkLoop(LoopBody(l, base64Sql), base64Sql) ELSE l

\* the whole function; its return value is the paramXml field
prepareSqlParameters(sql, rowLimit) ==
  ChunkLoop(LoopStart, encodeBase64(WrapSql(Sanitize(sql), rowLimit)))

(***************************************************************************)
(* App before anything has happened: one empty tab, nothing in flight.     *)
(***************************************************************************)
\* null, and a value that is not null
Null == <<>>
Some(v) == <<v>>

TabViews == {"TABLE", "RAW_XML"}

\* the tab object of useState (App, initial state) and of handleNewTab
NewTab(id, name) ==
  [id |-> id, name |-> name, query |-> "", rowLimit |-> 100, result |-> Null,
   error |-> Null, isLoading |-> FALSE, view |-> "TABLE"]

AppIdle ==
  /\ tabs = <<NewTab("tab-1", "Query 1")>>
  /\ activeTabId = "tab-1"
  /\ savedConnections = <<>>
  /\ activeConnectionId = ""
  /\ isSettingsOpen = FALSE
  /\ inflight = <<>>
  /\ explaining = <<>>
  /\ made = [ids |-> 0, commands |-> 0]

(***************************************************************************)
(* The inputs of the encoder.                                              *)
(***************************************************************************)
SqlChars == {" ", ";", "S", "\n"}

RECURSIVE StringsUpTo(_, _)
StringsUpTo(chars, n) ==
  IF n = 0 THEN {""}
  ELSE LET shorter == StringsUpTo(chars, n - 1)
       IN shorter \cup { s \o c : s \in shorter, c \in chars }

ExampleSql == {"SELECT 1;", "SELECT 1", "SELECT 1;;", " SELECT 'café' FROM dual ; "}

SmallSql == StringsUpTo(SqlChars, MaxSqlLen) \cup ExampleSql

EncRowLimits == {1, 100, -5}

\* A statement whose wrapped form, with rowLimit 100, has a Base64 text of n
\* characters (n a multiple of 4): 3n/4 bytes, 36 of them the wrapper's.
LongSqlUnit == "SELECT dummy FROM dual UNION ALL "
LongSql(n) ==
  LET len == 3 * (n \div 4) - 36
  IN SubSeq(Repeat(LongSqlUnit, len \div Len(LongSqlUnit) + 1), 1, len - 1) \o "1"

\* Base64 lengths next to c * CHUNK_SIZE, below and above it
LongTargets == {1, MAX_SLOTS, MaxChunkTarget}
LongLengths == { 4 * ((c * CHUNK_SIZE) \div 4) + d : c \in LongTargets, d \in {0, 4} }

EncInputs ==
  { <<sql, rowLimit>> : sql \in SmallSql, rowLimit \in EncRowLimits }
    \cup { <<LongSql(n), 100>> : n \in LongLengths }

EncIdle == [pc |-> "idle"]
DecIdle == [pc |-> "idle"]
ParIdle == [pc |-> "idle"]
ReqIdle == [pc |-> "idle"]
B64Idle == [pc |-> "idle"]
\* useState([]), useState(null), useState(emptyConfig) of SettingsModal
emptyConfig == [id |-> "", username |-> ""]
ModalIdle == [connections |-> <<>>, selectedId |-> Null, editConfig |-> emptyConfig]

EncStart(sql, rowLimit) ==
  [pc |-> "start", sql |-> sql, rowLimit |-> rowLimit, cleanSql |-> "", wrappedSql |-> "",
   base64Sql |-> "", loop |-> LoopStart]

(***************************************************************************)
(* prepareSqlParameters, statement by statement.                           *)
(***************************************************************************)
EncSanitize ==
  /\ enc.pc = "start"
  /\ enc' = [enc EXCEPT !.pc = "sanitized", !.cleanSql = Sanitize(enc.sql)]
  /\ UNCHANGED <<dec, par, req, b64, modal, appVars>>

EncWrap ==
  /\ enc.pc = "sanitized"
  /\ enc' = [enc EXCEPT !.pc = "wrapped", !.wrappedSql = WrapSql(enc.cleanSql, enc.rowLimit)]
  /\ UNCHANGED <<dec, par, req, b64, modal, appVars>>

EncEncode ==
  /\ enc.pc = "wrapped"
  /\ enc' = [enc EXCEPT !.pc = "loop", !.base64Sql = encodeBase64(enc.wrappedSql)]
  /\ UNCHANGED <<dec, par, req, b64, modal, appVars>>

EncLoopBody ==
  /\ enc.pc = "loop"
  /\ LoopRuns(enc.loop.i, Len(enc.base64Sql))
  /\ enc' = [enc EXCEPT !.loop = LoopBody(enc.loop, enc.base64Sql)]
  /\ UNCHANGED <<dec, par, req, b64, modal, appVars>>

EncReturn ==
  /\ enc.pc = "loop"
  /\ ~LoopRuns(enc.loop.i, Len(enc.base64Sql))
  /\ enc' = [enc EXCEPT !.pc = "done"]
  /\ UNCHANGED <<dec, par, req, b64, modal, appVars>>

InitEncode ==
  /\ AppIdle
  /\ par = ParIdle
  /\ req = ReqIdle
  /\ b64 = B64Idle
  /\ modal = ModalIdle
  /\ \E in \in EncInputs : enc = EncStart(in[1], in[2])
  /\ dec = DecIdle

NextEncode == EncSanitize \/ EncWrap \/ EncEncode \/ EncLoopBody \/ EncReturn

SpecEncode == InitEncode /\ [][NextEncode]_vars

(***************************************************************************)
(* The answers of fetch the response half is run on.                       *)
(***************************************************************************)
InnerEmpty     == "<ROWSET></ROWSET>"
InnerRows      == "<ROWSET><ROW><A>1</A><B>2</B></ROW><ROW><A>3</A></ROW></ROWSET>"
InnerMalformed == "<ROWSET><ROW><A>1</A>"

Fragments ==
  { "<faultstring>ORA-00001</faultstring>",
    "<faultstring>ORA-00942</faultstring>",
    "<faultstring></faultstring>",
    "<soapenv:Fault>denied</soapenv:Fault>",
    "<reportBytes>" \o encodeBase64(InnerEmpty) \o "</reportBytes>",
    "<v2:reportBytes>" \o encodeBase64(InnerRows) \o "</v2:reportBytes>",
    "<ns2:reportBytes>" \o encodeBase64(InnerMalformed) \o "</ns2:reportBytes>",
    "<reportBytes></reportBytes>",
    "<v2:reportBytes>!!!!</v2:reportBytes>",
    "<ns2:reportBytes>/w==</ns2:reportBytes>",
    "<oops>",
    "</oops>" }

RECURSIVE FragmentRuns(_)
FragmentRuns(n) ==
  IF n = 0 THEN {""}
  ELSE LET shorter == FragmentRuns(n - 1)
       IN shorter \cup { r \o f : r \in shorter, f \in Fragments }

Bodies ==
  { "<env>" \o r \o "</env>" : r \in FragmentRuns(MaxFragments) }
    \cup { "", "Bad Gateway" }

Statuses == {200, 500}

FetchRejections ==
  { [name |-> "TypeError", message |-> "Failed to fetch"],
    [name |-> "AbortError", message |-> "The user aborted a request."] }

NoError == [name |-> "", message |-> ""]
NoDoc == [elems |-> <<>>]

FetchAnswers ==
  { [rejected |-> FALSE, status |-> s, body |-> b, error |-> NoError] :
      s \in Statuses, b \in Bodies }
    \cup { [rejected |-> TRUE, status |-> 0, body |-> "", error |-> e] : e \in FetchRejections }

\* the call is about to send its request; answer is what the network will
\* answer it with, fetches counts the calls of fetch
DecStart(answer) ==
  [pc |-> "sending", answer |-> answer, fetches |-> 0, doc |-> NoDoc,
   base64Data |-> "", decodedXml |-> "", outcome |-> Pending]

\* variant: after an Error the request is sent once more
RetryOnce(d, outcome) ==
  IF d.fetches < 2 THEN [d EXCEPT !.pc = "sending"]
  ELSE [d EXCEPT !.pc = "done", !.outcome = outcome]

\* throw new Error(...): nothing catches it inside executeSoapQuery, the call
\* ends with it
ThrowFrom(d, outcome) == [d EXCEPT !.pc = "done", !.outcome = outcome]

(***************************************************************************)
(* executeSoapQuery from await fetch on, statement by statement.           *)
(***************************************************************************)
\* response = await fetch(fetchUrl, { method: 'POST', ... })
DecFetch ==
  /\ dec.pc = "sending"
  /\ dec' = [dec EXCEPT !.pc = "fetched", !.fetches = @ + 1]
  /\ UNCHANGED <<enc, par, req, b64, modal, appVars>>

\* fetch rejected: catch (error)
DecFetchRejected ==
  /\ dec.pc = "fetched"
  /\ dec.answer.rejected
  /\ dec' = ThrowFrom(dec, FetchError(dec.answer.error))
  /\ UNCHANGED <<enc, par, req, b64, modal, appVars>>

\* if (!response.ok) { ... throw }
DecNotOk ==
  /\ dec.pc = "fetched"
  /\ ~dec.answer.rejected
  /\ ~IsOk(dec.answer.status)
  /\ dec' = ThrowFrom(dec, HttpError(dec.answer.status, dec.answer.body))
  /\ UNCHANGED <<enc, par, req, b64, modal, appVars>>

\* const doc = parser.parseFromString(responseText, "text/xml")
DecParseOuter ==
  /\ dec.pc = "fetched"
  /\ ~dec.answer.rejected
  /\ IsOk(dec.answer.status)
  /\ \E doc \in parseFromString(dec.answer.body) :
       dec' = [dec EXCEPT !.pc = "parsed", !.doc = doc]
  /\ UNCHANGED <<enc, par, req, b64, modal, appVars>>

\* if (fault) throw
DecFault ==
  /\ dec.pc = "parsed"
  /\ FaultNode(dec.doc) # 0
  /\ dec' = ThrowFrom(dec, Threw("fault",
                                MsgFaultPrefix \o dec.doc.elems[FaultNode(dec.doc)].text))
  /\ UNCHANGED <<enc, par, req, b64, modal, appVars>>

\* if (!reportBytesNode || !reportBytesNode.textContent) throw
DecNoPayload ==
  /\ dec.pc = "parsed"
  /\ FaultNode(dec.doc) = 0
  /\ NoPayload(dec.doc)
  /\ dec' = ThrowFrom(dec, Threw("no-payload", MsgNoReportBytes))
  /\ UNCHANGED <<enc, par, req, b64, modal, appVars>>

\* const base64Data = reportBytesNode.textContent
DecPayload ==
  /\ dec.pc = "parsed"
  /\ FaultNode(dec.doc) = 0
  /\ ~NoPayload(dec.doc)
  /\ dec' = [dec EXCEPT !.pc = "payload",
                        !.base64Data = dec.doc.elems[ReportBytesNode(dec.doc)].text]
  /\ UNCHANGED <<enc, par, req, b64, modal, appVars>>

\* const decodedXml = decodeBase64(base64Data): an exception that escapes
\* decodeBase64 ends the call
DecDecode ==
  /\ dec.pc = "payload"
  /\ LET d == decodeBase64(dec.base64Data)
     IN dec' = IF d.threw
               THEN [dec EXCEPT !.pc = "done", !.outcome = Threw("decode", "InvalidCharacterError")]
               ELSE [dec EXCEPT !.pc = "decoded", !.decodedXml = d.value]
  /\ UNCHANGED <<enc, par, req, b64, modal, appVars>>

\* const result = parseOracleXML(decodedXml); result.executionTimeMs = ...; return
DecParseInner ==
  /\ dec.pc = "decoded"
  /\ \E xmlDoc \in parseFromString(dec.decodedXml) : \E ms \in ElapsedMs :
       LET out == parseOracleXML(dec.decodedXml, xmlDoc)
       IN dec' = [dec EXCEPT
                    !.pc = "done",
                    !.outcome = IF out.kind = "result"
                                THEN Returned([out.result EXCEPT !.executionTimeMs = ms])
                                ELSE out]
  /\ UNCHANGED <<enc, par, req, b64, modal, appVars>>

InitDecode ==
  /\ AppIdle
  /\ par = ParIdle
  /\ req = ReqIdle
  /\ b64 = B64Idle
  /\ modal = ModalIdle
  /\ enc = EncIdle
  /\ \E a \in FetchAnswers : dec = DecStart(a)

NextDecode ==
  \/ DecFetch
  \/ DecFetchRejected
  \/ DecNotOk
  \/ DecParseOuter
  \/ DecFault
  \/ DecNoPayload
  \/ DecPayload
  \/ DecDecode
  \/ DecParseInner

SpecDecode == InitDecode /\ [][NextDecode]_vars

(***************************************************************************)
(* parseOracleXML on its own: the decoded reports it is run on.            *)
(***************************************************************************)
\* what a row of a report is made of; RowBreak ends a row and begins the next
Cells == {"<A>1</A>", "<B>2</B>", "<A>3</A>", "<C/>"}
RowBreak == "</ROW><ROW>"

RECURSIVE CellRuns(_)
CellRuns(n) ==
  IF n = 0 THEN {""}
  ELSE LET shorter == CellRuns(n - 1)
       IN shorter \cup { r \o c : r \in shorter, c \in Cells \cup {RowBreak} }

\* reports with rows, reports without, a report that uses the tag name
\* parsererror for its data, and texts that are not well-formed
InnerDocs ==
  { "<ROWSET><ROW>" \o r \o "</ROW></ROWSET>" : r \in CellRuns(MaxInnerCells) }
    \cup { InnerEmpty, "<ROWSET/>", "<ROWSET>none</ROWSET>",
           "<parsererror/>",
           "<ROWSET><ROW><parsererror>1</parsererror></ROW></ROWSET>",
           InnerMalformed, "", "<ROWSET><ROW></ROWSET>" }

ParStart(xmlString) ==
  [pc |-> "start", xmlString |-> xmlString, xmlDoc |-> NoDoc, outcome |-> Pending]

\* const xmlDoc = parser.parseFromString(xmlString, "text/xml")
ParParse ==
  /\ par.pc = "start"
  /\ \E xmlDoc \in parseFromString(par.xmlString) :
       par' = [par EXCEPT !.pc = "parsed", !.xmlDoc = xmlDoc]
  /\ UNCHANGED <<enc, dec, req, b64, modal, appVars>>

\* the parsererror check, the row loop and the return
ParFlatten ==
  /\ par.pc = "parsed"
  /\ par' = [par EXCEPT !.pc = "done",
                        !.outcome = parseOracleXML(par.xmlString, par.xmlDoc)]
  /\ UNCHANGED <<enc, dec, req, b64, modal, appVars>>

InitParse ==
  /\ AppIdle
  /\ enc = EncIdle
  /\ dec = DecIdle
  /\ req = ReqIdle
  /\ b64 = B64Idle
  /\ modal = ModalIdle
  /\ \E xmlString \in InnerDocs : par = ParStart(xmlString)

NextParse == ParParse \/ ParFlatten

SpecParse == InitParse /\ [][NextParse]_vars

(***************************************************************************)
(* encodeBase64 and decodeBase64 applied one after the other to a text.    *)
(***************************************************************************)
\* one-byte, two-byte and three-byte characters
TextChars == {"a", " ", "é", "©", ByteOrderMark}

Texts == StringsUpTo(TextChars, MaxTextLen) \cup {"-- café", "SELECT 'café' FROM dual"}

B64Start(str) == [pc |-> "start", str |-> str, encoded |-> "", decoded |-> ""]

B64Encode ==
  /\ b64.pc = "start"
  /\ b64' = [b64 EXCEPT !.pc = "encoded", !.encoded = encodeBase64(b64.str)]
  /\ UNCHANGED <<enc, dec, par, req, modal, appVars>>

B64Decode ==
  /\ b64.pc = "encoded"
  /\ b64' = [b64 EXCEPT !.pc = "decoded", !.decoded = decodeBase64(b64.encoded).value]
  /\ UNCHANGED <<enc, dec, par, req, modal, appVars>>

InitBase64 ==
  /\ AppIdle
  /\ enc = EncIdle
  /\ dec = DecIdle
  /\ par = ParIdle
  /\ req = ReqIdle
  /\ modal = ModalIdle
  /\ \E str \in Texts : b64 = B64Start(str)

NextBase64 == B64Encode \/ B64Decode

SpecBase64 == InitBase64 /\ [][NextBase64]_vars

(***************************************************************************)
(* executeSoapQuery before await fetch: the URL the request is sent to.    *)
(***************************************************************************)
REPORT_SERVICE_PATH == "/xmlpserver/services/v2/ReportService"

\* s.includes(sub)
includes(s, sub) == indexOf(s, sub, 1) # 0

\* variant: a trailing slash is kept
TargetUrlKeepSlash(url) ==
  LET targetUrl == trim(url)
  IN IF ~includes(targetUrl, "/xmlpserver")
     THEN targetUrl \o REPORT_SERVICE_PATH
     ELSE targetUrl

\* 3. Construct Target URL
TargetUrl(url) ==
  LET targetUrl == trim(url)
  IN IF ~includes(targetUrl, "/xmlpserver")
     THEN (IF endsWith(targetUrl, "/") THEN sliceLast(targetUrl) ELSE targetUrl)
            \o REPORT_SERVICE_PATH
     ELSE targetUrl

\* variant: every proxy is given the slash
FetchUrlAlwaysSlash(corsProxy, targetUrl) ==
  IF corsProxy # Null /\ Len(trim(corsProxy[1])) > 0
  THEN trim(corsProxy[1]) \o "/" \o targetUrl
  ELSE targetUrl

\* 4. Handle Proxy URL construction; corsProxy is Null when the connection
\* has none
FetchUrl(corsProxy, targetUrl) ==
  IF corsProxy # Null /\ Len(trim(corsProxy[1])) > 0
  THEN LET trimmed  == trim(corsProxy[1])
           special  == IF trimmed = "https://corsproxy.io"
                       THEN "https://corsproxy.io/?" ELSE trimmed
           proxy    == IF ~endsWith(special, "?") /\ ~endsWith(special, "=")
                          /\ ~endsWith(special, "/")
                       THEN special \o "/" ELSE special
       IN proxy \o targetUrl
  ELSE targetUrl

(***************************************************************************)
(* executeSoapQuery before await fetch: the body of the request.           *)
(***************************************************************************)
\* String.prototype.replace with a string pattern puts GetSubstitution of the
\* replacement in place of the match: $$ is a dollar sign, $& the match, $'
\* the text after the match; there are no captures, so $1 and $< stay as they
\* are.  ($ followed by a grave accent, the text before the match, is not a
\* sequence of the model's characters.)
RECURSIVE GetSubstitution(_, _, _, _)
GetSubstitution(matched, str, position, replacement) ==
  LET d == indexOf(replacement, "$", 1)
      after == SubSeq(str, position + Len(matched), Len(str))
      next == CharAt(replacement, d + 1)
      rest(n) == GetSubstitution(matched, str, position, SubSeq(replacement, d + n, Len(replacement)))
  IN IF d = 0 \/ d = Len(replacement) THEN replacement
     ELSE SubSeq(replacement, 1, d - 1)
            \o (IF next = "$" THEN "$" \o rest(2)
                ELSE IF next = "&" THEN matched \o rest(2)
                ELSE IF next = "'" THEN after \o rest(2)
                ELSE "$" \o rest(1))

\* str.replace(searchValue, replaceValue), both strings: the first match only
replace(str, searchValue, replaceValue) ==
  LET position == indexOf(str, searchValue, 1)
  IN IF position = 0 THEN str
     ELSE SubSeq(str, 1, position - 1)
            \o GetSubstitution(searchValue, str, position, replaceValue)
            \o SubSeq(str, position + Len(searchValue), Len(str))

\* the else branch: the envelope written out in the code
DefaultEnvelope(username, password, parametersXml) ==
  "<soapenv:Envelope xmlns:soapenv=\"http://schemas.xmlsoap.org/soap/envelope/\" xmlns:v2=\"http://xmlns.oracle.com/oxp/service/v2\">\n"
    \o "        <soapenv:Header/>\n"
    \o "        <soapenv:Body>\n"
    \o "            <v2:runReport>\n"
    \o "                <v2:reportRequest>\n"
    \o "                    <v2:attributeFormat>xml</v2:attributeFormat>\n"
    \o "                    <v2:byPassCache>True</v2:byPassCache>\n"
    \o "                    <v2:flattenXML>True</v2:flattenXML>\n"
    \o "                    <v2:reportAbsolutePath>/Custom/Human Capital Management/FusionSQLtoolTest1/FSTreport_2.xdo</v2:reportAbsolutePath>\n"
    \o "                    <v2:parameterNameValues>\n"
    \o "                       <v2:listOfParamNameValues>\n"
    \o "                          "
    \o parametersXml
    \o "\n"
    \o "                       </v2:listOfParamNameValues>\n"
    \o "                    </v2:parameterNameValues>\n"
    \o "                </v2:reportRequest>\n"
    \o "                <v2:userID>"
    \o username
    \o "</v2:userID>\n"
    \o "                <v2:password>"
    \o password
    \o "</v2:password>\n"
    \o "            </v2:runReport>\n"
    \o "        </soapenv:Body>\n"
    \o "      </soapenv:Envelope>"

\* 2. Construct Payload
SoapBody(soapTemplate, username, password, parametersXml) ==
  IF Len(soapTemplate) > 0 /\ includes(soapTemplate, "{{PARAMETERS}}")
  THEN replace(replace(replace(soapTemplate, "{{USERNAME}}", username),
                       "{{PASSWORD}}", password),
               "{{PARAMETERS}}", parametersXml)
  ELSE DefaultEnvelope(username, password, parametersXml)

\* config.url and config.corsProxy
BaseUrls ==
  { "https://h.example.com",
    "https://h.example.com/",
    " https://h.example.com// ",
    "https://h.example.com/xmlpserver/services/v2/ReportService",
    "https://h.example.com/xmlpserver/services/v2/ReportService?WSDL",
    "https://h.example.com/xmlpserver",
    "https://h.example.com/xmlpserver/",
    "" }
Proxies ==
  { Null, Some(""), Some("  "),
    Some("https://corsproxy.io"), Some(" https://corsproxy.io "),
    Some("https://corsproxy.io/?"), Some("https://corsproxy.io/"),
    Some("https://p.example.com"), Some("https://p.example.com/"),
    Some("https://p.example.com/get?url="), Some("https://p.example.com/?") }

DEFAULT_SOAP_TEMPLATE ==
  "<!-- The template is now generated dynamically in soapService.ts based on SQL length -->\n"
    \o "<!-- This is just for reference or manual overrides -->\n"
    \o "<soapenv:Envelope xmlns:soapenv=\"http://schemas.xmlsoap.org/soap/envelope/\" xmlns:v2=\"http://xmlns.oracle.com/oxp/service/v2\">\n"
    \o "   <soapenv:Header/>\n"
    \o "   <soapenv:Body>\n"
    \o "      <v2:runReport>\n"
    \o "         <v2:reportRequest>\n"
    \o "            <v2:attributeFormat>xml</v2:attributeFormat>\n"
    \o "            <v2:byPassCache>True</v2:byPassCache>\n"
    \o "            <v2:flattenXML>True</v2:flattenXML>\n"
    \o "            <v2:reportAbsolutePath>/Custom/Human Capital Management/FusionSQLtoolTest1/FSTreport_2.xdo</v2:reportAbsolutePath>\n"
    \o "            <v2:parameterNameValues>\n"
    \o "               <v2:listOfParamNameValues>\n"
    \o "                  <!-- Parameters q1 through q9 are injected here dynamically -->\n"
    \o "                  {{PARAMETERS}}\n"
    \o "               </v2:listOfParamNameValues>\n"
    \o "            </v2:parameterNameValues>\n"
    \o "         </v2:reportRequest>\n"
    \o "         <v2:userID>{{USERNAME}}</v2:userID>\n"
    \o "         <v2:password>{{PASSWORD}}</v2:password>\n"
    \o "      </v2:runReport>\n"
    \o "   </soapenv:Body>\n"
    \o "</soapenv:Envelope>"

\* config.soapTemplate: with the three placeholders in either order, without
\* {{PARAMETERS}}, and empty
SoapTemplates ==
  { DEFAULT_SOAP_TEMPLATE,
    "<u>{{USERNAME}}</u><p>{{PASSWORD}}</p><q>{{PARAMETERS}}</q>",
    "<q>{{PARAMETERS}}</q><p>{{PASSWORD}}</p><u>{{USERNAME}}</u>",
    "<u>{{USERNAME}}</u><p>{{PASSWORD}}</p>",
    "" }
\* config.username and config.password
Usernames == {"apps", "a$&b", "{{PASSWORD}}", "{{PARAMETERS}}"}
Passwords == {"secret", "pa$$word", "x$'", "US$1", "{{PARAMETERS}}", "{{USERNAME}}"}

DefaultConfig ==
  [url |-> "https://h.example.com", corsProxy |-> Null, username |-> "apps",
   password |-> "secret", soapTemplate |-> DEFAULT_SOAP_TEMPLATE]

\* the connections the call is made with
Configs ==
  { [DefaultConfig EXCEPT !.url = url, !.corsProxy = corsProxy] :
      url \in BaseUrls, corsProxy \in Proxies }
    \cup { [DefaultConfig EXCEPT !.username = u, !.password = p, !.soapTemplate = t] :
             u \in Usernames, p \in Passwords, t \in SoapTemplates }

ReqStart(query, config, rowLimit) ==
  [pc |-> "start", query |-> query, rowLimit |-> rowLimit,
   url |-> config.url, corsProxy |-> config.corsProxy, username |-> config.username,
   password |-> config.password, soapTemplate |-> config.soapTemplate,
   parametersXml |-> "", soapBody |-> "", targetUrl |-> "", fetchUrl |-> ""]

ReqParameters ==
  /\ req.pc = "start"
  /\ req' = [req EXCEPT !.pc = "parameters",
                        !.parametersXml = prepareSqlParameters(req.query, req.rowLimit).paramXml]
  /\ UNCHANGED <<enc, dec, par, b64, modal, appVars>>

ReqSoapBody ==
  /\ req.pc = "parameters"
  /\ req' = [req EXCEPT !.pc = "body",
                        !.soapBody = SoapBody(req.soapTemplate, req.username, req.password,
                                              req.parametersXml)]
  /\ UNCHANGED <<enc, dec, par, b64, modal, appVars>>

ReqTargetUrl ==
  /\ req.pc = "body"
  /\ req' = [req EXCEPT !.pc = "target", !.targetUrl = TargetUrl(req.url)]
  /\ UNCHANGED <<enc, dec, par, b64, modal, appVars>>

ReqFetchUrl ==
  /\ req.pc = "target"
  /\ req' = [req EXCEPT !.pc = "ready", !.fetchUrl = FetchUrl(req.corsProxy, req.targetUrl)]
  /\ UNCHANGED <<enc, dec, par, b64, modal, appVars>>

InitRequest ==
  /\ AppIdle
  /\ enc = EncIdle
  /\ dec = DecIdle
  /\ par = ParIdle
  /\ b64 = B64Idle
  /\ modal = ModalIdle
  /\ \E config \in Configs : req = ReqStart("SELECT 1 FROM dual;", config, 100)

NextRequest == ReqParameters \/ ReqSoapBody \/ ReqTargetUrl \/ ReqFetchUrl

SpecRequest == InitRequest /\ [][NextRequest]_vars

(***************************************************************************)
(* The App component: tabs, connections, and the runs of handleRun.        *)
(***************************************************************************)
\* generateId(): a string no earlier call has returned
generateId(n) == "id-" \o ToString(n + 1)

\* the connections getConnections() can return at startup
ConnA == [id |-> "conn-a", username |-> "apps"]
ConnB == [id |-> "conn-b", username |-> ""]
StoredConnections == {<<>>, <<ConnA>>, <<ConnA, ConnB>>}
StoredActive == {"", "conn-b"}
Drafts == {"", "SELECT 1;"}

\* savedConnections.find(c => c.id === activeConnectionId) || { id: 'temp', ... }
TempConfig == [id |-> "temp", username |-> ""]
FindConnection(conns, id) ==
  LET hits == {i \in 1..Len(conns) : conns[i].id = id}
  IN IF hits = {} THEN Null ELSE Some(conns[SetMin(hits)])
activeConfig ==
  LET found == FindConnection(savedConnections, activeConnectionId)
  IN IF found = Null THEN TempConfig ELSE found[1]

\* tabs.find(t => t.id === activeTabId) || tabs[0]
TabIndex(list, id) ==
  LET hits == {i \in 1..Len(list) : list[i].id = id}
  IN IF hits = {} THEN 0 ELSE SetMin(hits)
activeTab ==
  IF TabIndex(tabs, activeTabId) = 0 THEN tabs[1] ELSE tabs[TabIndex(tabs, activeTabId)]

\* { ...t, ...updates }
Spread(t, updates) ==
  [f \in DOMAIN t |-> IF f \in DOMAIN updates THEN updates[f] ELSE t[f]]

\* variant: the update goes to the tab that is active when it is applied
updateTabActiveNow(prev, id, updates) ==
  [i \in 1..Len(prev) |->
     IF prev[i].id = activeTabId THEN Spread(prev[i], updates) ELSE prev[i]]

\* variant: when no tab has the id, the update goes to the first tab
updateActiveTabOrFirst(prev, id, updates) ==
  [i \in 1..Len(prev) |->
     IF prev[i].id = id \/ (i = 1 /\ \A j \in 1..Len(prev) : prev[j].id # id)
     THEN Spread(prev[i], updates) ELSE prev[i]]

\* setTabs(prev => prev.map(t => t.id === activeTabId ? { ...t, ...updates } : t)),
\* with the activeTabId of the render the calling closure was made in
updateActiveTab(prev, id, updates) ==
  [i \in 1..Len(prev) |-> IF prev[i].id = id THEN Spread(prev[i], updates) ELSE prev[i]]

\* tabs.filter(t => t.id !== id)
RECURSIVE FilterOut(_, _)
FilterOut(list, id) ==
  IF Len(list) = 0 THEN <<>>
  ELSE IF list[1].id = id THEN FilterOut(Tail(list), id)
  ELSE <<list[1]>> \o FilterOut(Tail(list), id)

(***************************************************************************)
(* parseInt(e.target.value) || 100 of the Limit Rows input.                *)
(***************************************************************************)
Digits == "0123456789"
IsDigit(c) == \E d \in 1..10 : CharAt(Digits, d) = c
DigitValue(c) == (CHOOSE d \in 1..10 : CharAt(Digits, d) = c) - 1

\* the length of the longest prefix of s made of digits
RECURSIVE DigitPrefix(_)
DigitPrefix(s) ==
  IF Len(s) > 0 /\ IsDigit(CharAt(s, 1)) THEN 1 + DigitPrefix(Tail(s)) ELSE 0

RECURSIVE DigitsValue(_)
DigitsValue(s) ==
  IF Len(s) = 0 THEN 0
  ELSE 10 * DigitsValue(SubSeq(s, 1, Len(s) - 1)) + DigitValue(CharAt(s, Len(s)))

\* parseInt(string): skip leading white space, take a sign, then the longest
\* run of decimal digits; NaN when there is no digit
parseInt(string) ==
  LET s      == trimStart(string)
      signed == Len(s) > 0 /\ CharAt(s, 1) \in {"-", "+"}
      sign   == IF Len(s) > 0 /\ CharAt(s, 1) = "-" THEN -1 ELSE 1
      rest   == IF signed THEN Tail(s) ELSE s
      n      == DigitPrefix(rest)
  IN IF n = 0 THEN [nan |-> TRUE, value |-> 0]
     ELSE [nan |-> FALSE, value |-> sign * DigitsValue(SubSeq(rest, 1, n))]

\* parseInt(e.target.value) || 100: NaN and 0 are falsy
RowLimitOf(value) ==
  LET n == parseInt(value)
  IN IF n.nan \/ n.value = 0 THEN 100 ELSE n.value

\* what the number input can hold when onChange fires
RowLimitValues == {"", "0", "7", "-5"}

\* what the user types into the editor
QueryTexts == {"SELECT 2"}

(***************************************************************************)
(* What executeSoapQuery can answer a run with.                            *)
(***************************************************************************)
RunResults ==
  {[o.result EXCEPT !.executionTimeMs = 42] :
     o \in {parseOracleXML(InnerRows, d) : d \in parseFromString(InnerRows)}}
RunErrors == {MsgNoReportBytes}

\* err.message || "Unknown error occurred"
ErrorText(message) == IF message = "" THEN "Unknown error occurred" ELSE message

\* variant: the wrapped statement is written back to the tab
RunStartUpdatesStoreWrapped(t) ==
  [isLoading |-> TRUE, error |-> Null,
   query |-> WrapSql(Sanitize(t.query), t.rowLimit)]

\* updateActiveTab({ isLoading: true, error: null })
RunStartUpdates(t) == [isLoading |-> TRUE, error |-> Null]

\* the call executeSoapQuery(activeTab.query, activeConfig, activeTab.rowLimit)
\* up to its await fetch, with what the closure of handleRun holds
RunRequest(t, config) ==
  [tabId  |-> activeTabId,
   view   |-> t.view,
   config |-> config,
   params |-> prepareSqlParameters(t.query, t.rowLimit)]

RemoveAt(s, k) == SubSeq(s, 1, k - 1) \o SubSeq(s, k + 1, Len(s))

(***************************************************************************)
(* The handlers of App.                                                    *)
(***************************************************************************)
\* loadData: the connection that becomes active at startup
InitialConnId(conns, storedActive) ==
  IF storedActive # "" /\ FindConnection(conns, storedActive) # Null THEN storedActive
  ELSE IF Len(conns) > 0 THEN conns[1].id
  ELSE ""

\* the state once loadData has set isDbReady
Init ==
  /\ enc = EncIdle
  /\ dec = DecIdle
  /\ par = ParIdle
  /\ req = ReqIdle
  /\ b64 = B64Idle
  /\ modal = ModalIdle
  /\ activeTabId = "tab-1"
  /\ \E conns \in StoredConnections, storedActive \in StoredActive, draft \in Drafts :
       /\ savedConnections = conns
       /\ activeConnectionId = InitialConnId(conns, storedActive)
       /\ isSettingsOpen = (InitialConnId(conns, storedActive) = "")
       /\ tabs = IF draft # ""
                 THEN updateActiveTab(<<NewTab("tab-1", "Query 1")>>, "tab-1",
                                      [query |-> draft])
                 ELSE <<NewTab("tab-1", "Query 1")>>
  /\ inflight = <<>>
  /\ explaining = <<>>
  /\ made = [ids |-> 0, commands |-> 0]

handleNewTab ==
  /\ made.commands < MaxCommands
  /\ LET newId == generateId(made.ids)
     IN /\ tabs' = tabs \o <<NewTab(newId, "Query " \o ToString(Len(tabs) + 1))>>
        /\ activeTabId' = newId
  /\ made' = [ids |-> made.ids + 1, commands |-> made.commands + 1]
  /\ UNCHANGED <<enc, dec, par, req, b64, modal, savedConnections, activeConnectionId, isSettingsOpen,
                 inflight, explaining>>

\* variant: the active tab is left as it is
handleCloseTabKeepActive(id) ==
  IF Len(tabs) = 1
  THEN UNCHANGED vars
  ELSE /\ tabs' = FilterOut(tabs, id)
       /\ UNCHANGED <<enc, dec, par, req, b64, modal, activeTabId, savedConnections, activeConnectionId,
                      isSettingsOpen, inflight, explaining, made>>

\* if (tabs.length === 1) return: the last tab is not closed
handleCloseTab(id) ==
  IF Len(tabs) = 1
  THEN UNCHANGED vars
  ELSE /\ LET newTabs == FilterOut(tabs, id)
          IN /\ tabs' = newTabs
             /\ activeTabId' = IF id = activeTabId THEN newTabs[Len(newTabs)].id
                               ELSE activeTabId
       /\ UNCHANGED <<enc, dec, par, req, b64, modal, savedConnections, activeConnectionId,
                      isSettingsOpen, inflight, explaining, made>>

\* onClick={() => setActiveTabId(tab.id)}
SelectTab(id) ==
  /\ activeTabId' = id
  /\ UNCHANGED <<enc, dec, par, req, b64, modal, tabs, savedConnections, activeConnectionId,
                 isSettingsOpen, inflight, explaining, made>>

\* one of the toolbar's and the editor's onChange handlers
EditActiveTab(updates) ==
  /\ made.commands < MaxCommands
  /\ tabs' = updateActiveTab(tabs, activeTabId, updates)
  /\ made' = [made EXCEPT !.commands = @ + 1]
  /\ UNCHANGED <<enc, dec, par, req, b64, modal, activeTabId, savedConnections, activeConnectionId,
                 isSettingsOpen, inflight, explaining>>

\* onChange={(val) => updateActiveTab({ query: val })}
EditQuery(val) == EditActiveTab([query |-> val])

\* onChange={(e) => updateActiveTab({ rowLimit: parseInt(e.target.value) || 100 })}
EditRowLimit(value) == EditActiveTab([rowLimit |-> RowLimitOf(value)])

\* setView={(v) => updateActiveTab({ view: v })}
SetView(v) == EditActiveTab([view |-> v])

handleSelectConnection(id) ==
  /\ activeConnectionId' = id
  /\ UNCHANGED <<enc, dec, par, req, b64, modal, tabs, activeTabId, savedConnections, isSettingsOpen,
                 inflight, explaining, made>>

\* onClick={() => setIsSettingsOpen(true)}, onClose={() => setIsSettingsOpen(false)};
\* the states of the dialog itself are followed in SpecSettings
SetSettingsOpen(open) ==
  /\ isSettingsOpen' = open
  /\ UNCHANGED <<enc, dec, par, req, b64, modal, tabs, activeTabId, savedConnections, activeConnectionId,
                 inflight, explaining, made>>

\* variant: the username is not looked at
handleRunUnchecked ==
  /\ made.commands < MaxCommands
  /\ tabs' = updateActiveTab(tabs, activeTabId, RunStartUpdates(activeTab))
  /\ inflight' = Append(inflight, RunRequest(activeTab, activeConfig))
  /\ made' = [made EXCEPT !.commands = @ + 1]
  /\ UNCHANGED <<enc, dec, par, req, b64, modal, activeTabId, savedConnections, activeConnectionId,
                 isSettingsOpen, explaining>>

\* handleRun up to its await
handleRun ==
  IF activeConfig.username = ""
  THEN /\ isSettingsOpen' = TRUE
       /\ UNCHANGED <<enc, dec, par, req, b64, modal, tabs, activeTabId, savedConnections,
                      activeConnectionId, inflight, explaining, made>>
  ELSE /\ made.commands < MaxCommands
       /\ tabs' = updateActiveTab(tabs, activeTabId, RunStartUpdates(activeTab))
       /\ inflight' = Append(inflight, RunRequest(activeTab, activeConfig))
       /\ made' = [made EXCEPT !.commands = @ + 1]
       /\ UNCHANGED <<enc, dec, par, req, b64, modal, activeTabId, savedConnections, activeConnectionId,
                      isSettingsOpen, explaining>>

\* the Run button of SqlEditor: disabled={isLoading}
RunButton ==
  /\ ~activeTab.isLoading
  /\ handleRun

\* Ctrl+Enter in the editor: handleKeyDown calls onRun()
RunShortcut == handleRun

\* handleRun after its await: executeSoapQuery returned data
RunResolved(k, data) ==
  /\ k \in 1..Len(inflight)
  /\ LET r == inflight[k]
     IN tabs' = updateActiveTab(tabs, r.tabId,
                  [result |-> Some(data), isLoading |-> FALSE,
                   view |-> IF r.view = "RAW_XML" THEN "RAW_XML" ELSE "TABLE"])
  /\ inflight' = RemoveAt(inflight, k)
  /\ UNCHANGED <<enc, dec, par, req, b64, modal, activeTabId, savedConnections, activeConnectionId,
                 isSettingsOpen, explaining, made>>

\* handleRun after its await: executeSoapQuery threw err
RunRejected(k, message) ==
  /\ k \in 1..Len(inflight)
  /\ tabs' = updateActiveTab(tabs, inflight[k].tabId,
               [error |-> Some(ErrorText(message)), result |-> Null, isLoading |-> FALSE])
  /\ inflight' = RemoveAt(inflight, k)
  /\ UNCHANGED <<enc, dec, par, req, b64, modal, activeTabId, savedConnections, activeConnectionId,
                 isSettingsOpen, explaining, made>>

\* handleExplainError up to its await
handleExplainError ==
  /\ activeTab.error # Null
  /\ made.commands < MaxCommands
  /\ tabs' = updateActiveTab(tabs, activeTabId, [isLoading |-> TRUE])
  /\ explaining' = Append(explaining, activeTabId)
  /\ made' = [made EXCEPT !.commands = @ + 1]
  /\ UNCHANGED <<enc, dec, par, req, b64, modal, activeTabId, savedConnections, activeConnectionId,
                 isSettingsOpen, inflight>>

\* handleExplainError after its await: the finally block
ExplainSettled(k) ==
  /\ k \in 1..Len(explaining)
  /\ tabs' = updateActiveTab(tabs, explaining[k], [isLoading |-> FALSE])
  /\ explaining' = RemoveAt(explaining, k)
  /\ UNCHANGED <<enc, dec, par, req, b64, modal, activeTabId, savedConnections, activeConnectionId,
                 isSettingsOpen, inflight, made>>

Next ==
  \/ handleNewTab
  \/ \E i \in 1..Len(tabs) : handleCloseTab(tabs[i].id)
  \/ \E i \in 1..Len(tabs) : SelectTab(tabs[i].id)
  \/ \E val \in QueryTexts : EditQuery(val)
  \/ \E value \in RowLimitValues : EditRowLimit(value)
  \/ \E v \in TabViews : SetView(v)
  \/ \E i \in 1..Len(savedConnections) : handleSelectConnection(savedConnections[i].id)
  \/ \E open \in BOOLEAN : SetSettingsOpen(open)
  \/ RunButton
  \/ RunShortcut
  \/ \E k \in 1..Len(inflight), data \in RunResults : RunResolved(k, data)
  \/ \E k \in 1..Len(inflight), e \in RunErrors : RunRejected(k, e)
  \/ handleExplainError
  \/ \E k \in 1..Len(explaining) : ExplainSettled(k)

Spec == Init /\ [][Next]_vars

(***************************************************************************)
(* The settings dialog (SettingsModal) and the connection states of App    *)
(* it reads and writes.                                                    *)
(***************************************************************************)
\* a value taken as a condition: null and "" count as false
Truthy(x) == x # Null /\ x[1] # ""

\* the effect on [isOpen, savedConnections, activeConnectionId]; ids counts
\* the calls of generateId
SyncEffect(isOpen, saved, activeId, m, ids) ==
  IF ~isOpen THEN [modal |-> m, ids |-> ids]
  ELSE LET initialId == IF activeId # "" THEN Some(activeId)
                        ELSE IF Len(saved) > 0 THEN Some(saved[1].id) ELSE Null
           found     == IF initialId = Null THEN Null ELSE FindConnection(saved, initialId[1])
       IN IF Truthy(initialId)
          THEN [modal |-> [connections |-> saved, selectedId |-> initialId,
                           editConfig  |-> IF found # Null THEN found[1] ELSE m.editConfig],
                ids   |-> ids]
          ELSE [modal |-> [connections |-> saved, selectedId |-> initialId,
                           editConfig  |-> [emptyConfig EXCEPT !.id = generateId(ids)]],
                ids   |-> ids + 1]

\* the states after a handler of the dialog and the effect that follows it;
\* ids counts the calls of generateId up to the end of the handler
AfterHandler(isOpen, saved, activeId, m, ids) ==
  LET e == SyncEffect(isOpen, saved, activeId, m, ids)
  IN /\ isSettingsOpen' = isOpen
     /\ savedConnections' = saved
     /\ activeConnectionId' = activeId
     /\ modal' = e.modal
     /\ made' = [ids |-> e.ids, commands |-> made.commands + 1]
     /\ UNCHANGED <<enc, dec, par, req, b64, tabs, activeTabId, inflight, explaining>>

\* setSelectedId(id); const found = connections.find(...); if (found) setEditConfig({ ...found })
Selected(m, conns, id) ==
  LET found == FindConnection(conns, id)
  IN [m EXCEPT !.selectedId = Some(id),
               !.editConfig = IF found # Null THEN found[1] ELSE m.editConfig]

\* newConns of saveCurrent: editConfig in the place of the connection with
\* its id, at the end when there is none
SavedWith(conns, editConfig) ==
  LET index == TabIndex(conns, editConfig.id)
  IN IF index > 0 THEN [conns EXCEPT ![index] = editConfig]
     ELSE Append(conns, editConfig)

\* what the username field of the dialog is set to
UsernameInputs == {"", "apps"}

\* the user opens the dialog
OpenSettings ==
  /\ ~isSettingsOpen
  /\ made.commands < MaxCommands
  /\ AfterHandler(TRUE, savedConnections, activeConnectionId, modal, made.ids)

\* onClose
CloseSettings ==
  /\ isSettingsOpen
  /\ made.commands < MaxCommands
  /\ AfterHandler(FALSE, savedConnections, activeConnectionId, modal, made.ids)

\* handleSelect(conn.id) of an entry of the list; no state of App changes, so
\* the effect does not run
ModalSelect(id) ==
  /\ isSettingsOpen
  /\ made.commands < MaxCommands
  /\ modal' = Selected(modal, modal.connections, id)
  /\ made' = [made EXCEPT !.commands = @ + 1]
  /\ UNCHANGED <<enc, dec, par, req, b64, tabs, activeTabId, savedConnections,
                 activeConnectionId, isSettingsOpen, inflight, explaining>>

\* handleNew
ModalNew ==
  /\ isSettingsOpen
  /\ made.commands < MaxCommands
  /\ modal' = [modal EXCEPT !.selectedId = Null,
                            !.editConfig = [emptyConfig EXCEPT !.id = generateId(made.ids)]]
  /\ made' = [ids |-> made.ids + 1, commands |-> made.commands + 1]
  /\ UNCHANGED <<enc, dec, par, req, b64, tabs, activeTabId, savedConnections,
                 activeConnectionId, isSettingsOpen, inflight, explaining>>

\* handleFieldChange('username', value)
ModalFieldChange(value) ==
  /\ isSettingsOpen
  /\ made.commands < MaxCommands
  /\ modal' = [modal EXCEPT !.editConfig.username = value]
  /\ made' = [made EXCEPT !.commands = @ + 1]
  /\ UNCHANGED <<enc, dec, par, req, b64, tabs, activeTabId, savedConnections,
                 activeConnectionId, isSettingsOpen, inflight, explaining>>

\* saveCurrent: onSaveConnections(newConns), and onSelectConnection when the
\* saved connection is the only one
saveCurrent ==
  /\ isSettingsOpen
  /\ made.commands < MaxCommands
  /\ LET newConns == SavedWith(modal.connections, modal.editConfig)
     IN AfterHandler(TRUE, newConns,
                     IF Len(newConns) = 1 THEN modal.editConfig.id ELSE activeConnectionId,
                     [modal EXCEPT !.connections = newConns,
                                   !.selectedId = Some(modal.editConfig.id)],
                     made.ids)

\* deleteCurrent; the button is disabled when editConfig is not in the list
deleteCurrent ==
  /\ isSettingsOpen
  /\ made.commands < MaxCommands
  /\ FindConnection(modal.connections, modal.editConfig.id) # Null
  /\ LET newConns == FilterOut(modal.connections, modal.editConfig.id)
         kept     == [modal EXCEPT !.connections = newConns]
     IN IF Len(newConns) > 0
        THEN AfterHandler(TRUE, newConns, activeConnectionId,
                          Selected(kept, modal.connections, newConns[1].id), made.ids)
        ELSE AfterHandler(TRUE, newConns, activeConnectionId,
                          [kept EXCEPT !.selectedId = Null,
                                       !.editConfig = [emptyConfig EXCEPT !.id = generateId(made.ids)]],
                          made.ids + 1)

\* setAsActive: saveCurrent(); onSelectConnection(editConfig.id); onClose()
setAsActive ==
  /\ isSettingsOpen
  /\ made.commands < MaxCommands
  /\ LET newConns == SavedWith(modal.connections, modal.editConfig)
     IN AfterHandler(FALSE, newConns, modal.editConfig.id,
                     [modal EXCEPT !.connections = newConns,
                                   !.selectedId = Some(modal.editConfig.id)],
                     made.ids)

\* handleSelectConnection(conn.id) from the dropdown of the header, which the
\* open dialog covers
ConnectFromHeader(id) ==
  /\ ~isSettingsOpen
  /\ handleSelectConnection(id)

\* the state once loadData has set isDbReady and the effect of the dialog
\* has run
InitSettings ==
  /\ enc = EncIdle
  /\ dec = DecIdle
  /\ par = ParIdle
  /\ req = ReqIdle
  /\ b64 = B64Idle
  /\ tabs = <<NewTab("tab-1", "Query 1")>>
  /\ activeTabId = "tab-1"
  /\ inflight = <<>>
  /\ explaining = <<>>
  /\ \E conns \in StoredConnections, storedActive \in StoredActive :
       LET initialConnId == InitialConnId(conns, storedActive)
           e == SyncEffect(initialConnId = "", conns, initialConnId, ModalIdle, 0)
       IN /\ savedConnections = conns
          /\ activeConnectionId = initialConnId
          /\ isSettingsOpen = (initialConnId = "")
          /\ modal = e.modal
          /\ made = [ids |-> e.ids, commands |-> 0]

NextSettings ==
  \/ OpenSettings
  \/ CloseSettings
  \/ \E i \in 1..Len(modal.connections) : ModalSelect(modal.connections[i].id)
  \/ ModalNew
  \/ \E value \in UsernameInputs : ModalFieldChange(value)
  \/ saveCurrent
  \/ deleteCurrent
  \/ setAsActive
  \/ \E i \in 1..Len(savedConnections) : ConnectFromHeader(savedConnections[i].id)

SpecSettings == InitSettings /\ [][NextSettings]_vars



(***************************************************************************)
(* Properties of prepareSqlParameters (SpecEncode).                        *)
(***************************************************************************)
\* ceil(a / b) for b > 0
CeilDiv(a, b) == (a + b - 1) \div b

RECURSIVE ConcatChunks(_)
ConcatChunks(emitted) ==
  IF Len(emitted) = 0 THEN "" ELSE emitted[1].chunk \o ConcatChunks(Tail(emitted))

RECURSIVE RenderItems(_)
RenderItems(emitted) ==
  IF Len(emitted) = 0 THEN ""
  ELSE ParamItem(emitted[1].name, emitted[1].chunk) \o RenderItems(Tail(emitted))

SlotNames == <<"q1", "q2", "q3", "q4", "q5", "q6", "q7", "q8", "q9">>

\* C1: when prepareSqlParameters returns, for a Base64 text of N characters it
\* has emitted min(ceil(N / 32767), 9) chunks, and the chunks concatenated in
\* emission order are the first min(N, 9 * 32767) characters of that text.
C1_ChunksReconstructPrefix ==
  enc.pc = "done" =>
    LET N == Len(enc.base64Sql)
    IN /\ Len(enc.loop.emitted) = Min(CeilDiv(N, 32767), 9)
       /\ ConcatChunks(enc.loop.emitted) = SubSeq(enc.base64Sql, 1, Min(N, 9 * 32767))

\* a statement too long for nine slots has been chunked
C1_Witness ==
  /\ enc.pc = "done"
  /\ Len(enc.base64Sql) > 9 * 32767
  /\ Len(enc.loop.emitted) = 9

\* C2: at every point of the loop the parameter XML holds exactly the emitted
\* items in order; the k-th item (from 1) is named q<k>, no name lies outside
\* q1..q9, every chunk has at most 32767 characters and every chunk but the
\* last emitted one has exactly 32767.
C2_SlotNamesAndSizes ==
  enc.pc \in {"loop", "done"} =>
    LET emitted == enc.loop.emitted
    IN /\ enc.loop.paramXml = RenderItems(emitted)
       /\ Len(emitted) <= 9
       /\ \A k \in 1..Len(emitted) :
            /\ emitted[k].name = SlotNames[k]
            /\ Len(emitted[k].chunk) <= 32767
            /\ k < Len(emitted) => Len(emitted[k].chunk) = 32767

\* nine chunks emitted, the last one shorter than the others
C2_Witness ==
  /\ enc.pc = "done"
  /\ Len(enc.loop.emitted) = 9
  /\ Len(enc.loop.emitted[9].chunk) < 32767
  /\ Len(enc.loop.emitted[9].chunk) > 0

AllWhiteSpace(s, lo, hi) == \A k \in lo..hi : CharAt(s, k) \in WhiteSpace

\* clean is s without its surrounding white space and without one trailing ';'
\* of what remains: s = white space, core, white space, where core neither
\* starts nor ends with white space, and core = clean + ";" if core ends with
\* ';' and core = clean otherwise.
IsSanitized(s, clean) ==
  \E a \in 0..Len(s) : \E d \in 0..(Len(s) - a) :
    LET core == SubSeq(s, a + 1, Len(s) - d)
    IN /\ AllWhiteSpace(s, 1, a)
       /\ AllWhiteSpace(s, Len(s) - d + 1, Len(s))
       /\ core # "" => /\ CharAt(core, 1) \notin WhiteSpace
                       /\ CharAt(core, Len(core)) \notin WhiteSpace
       /\ IF core # "" /\ CharAt(core, Len(core)) = ";"
          THEN core = clean \o ";"
          ELSE core = clean

\* C3: the sanitized SQL is the input trimmed, with exactly one trailing ';'
\* removed if the trimmed text ends with ';' and nothing removed otherwise;
\* 'SELECT 1;' gives 'SELECT 1', 'SELECT 1' is unchanged, 'SELECT 1;;' gives
\* 'SELECT 1;'.
C3_SanitizeOneSemicolon ==
  enc.pc \in {"sanitized", "wrapped", "loop", "done"} =>
    /\ IsSanitized(enc.sql, enc.cleanSql)
    /\ enc.sql = "SELECT 1;" => enc.cleanSql = "SELECT 1"
    /\ enc.sql = "SELECT 1" => enc.cleanSql = "SELECT 1"
    /\ enc.sql = "SELECT 1;;" => enc.cleanSql = "SELECT 1;"

\* two trailing semicolons, one removed
C3_Witness ==
  /\ enc.pc = "sanitized"
  /\ enc.sql = "SELECT 1;;"
  /\ enc.cleanSql = "SELECT 1;"

\* C4: the text handed to encodeBase64 is 'SELECT * FROM (' + sanitized SQL +
\* ') WHERE rownum <= ' + rowLimit: the wrapper is applied once.
C4_WrappedOnce ==
  enc.pc \in {"wrapped", "loop", "done"} =>
    \E clean \in {enc.cleanSql} :
      /\ IsSanitized(enc.sql, clean)
      /\ enc.wrappedSql = "SELECT * FROM (" \o clean \o ") WHERE rownum <= "
                            \o ToString(enc.rowLimit)

\* a statement that itself mentions the wrapper's keywords has been wrapped
C4_Witness ==
  /\ enc.pc = "done"
  /\ enc.sql = " SELECT 'café' FROM dual ; "
  /\ enc.wrappedSql = "SELECT * FROM (SELECT 'café' FROM dual ) WHERE rownum <= 100"

(***************************************************************************)
(* Properties of the response half of executeSoapQuery (SpecDecode).       *)
(***************************************************************************)
Answered == dec.pc \notin {"idle", "sending"} /\ ~dec.answer.rejected
Finished == dec.pc = "done"
Failed(site) == dec.outcome.kind = "error" /\ dec.outcome.site = site

FaultElement == "<faultstring>ORA-00001</faultstring>"
Contains(s, sub) == indexOf(s, sub, 1) # 0

\* the first <faultstring> of the body is the element with the text ORA-00001
FirstFaultIsOra1(body) ==
  /\ Contains(body, FaultElement)
  /\ indexOf(body, "<faultstring>", 1) = indexOf(body, FaultElement, 1)

C8_MalformedBodyIsMalformedResponse ==
  (Finished /\ Answered /\ IsOk(dec.answer.status) /\ ~WellFormed(dec.answer.body)) =>
    /\ dec.outcome.kind = "error"
    /\ ErrorKind(dec.outcome.site) = "MalformedResponse"

ElementsNamed(doc, name) == { k \in 1..Len(doc.elems) : doc.elems[k].name = name }
HasFault(doc) == ElementsNamed(doc, "faultstring") \cup ElementsNamed(doc, "soapenv:Fault") # {}

Spellings == <<"reportBytes", "v2:reportBytes", "ns2:reportBytes">>

\* the text of the payload element by the priority of C9; absent is TRUE when
\* the document has no element of any spelling
PayloadByPriority(doc) ==
  LET present == { i \in 1..3 : ElementsNamed(doc, Spellings[i]) # {} }
  IN IF present = {} THEN [absent |-> TRUE, text |-> ""]
     ELSE [absent |-> FALSE,
           text |-> doc.elems[SetMin(ElementsNamed(doc, Spellings[SetMin(present)]))].text]

\* C9: once a document without a fault element has been searched for the
\* payload, the payload is the text of the first element of the first spelling
\* present in the order reportBytes, v2:reportBytes, ns2:reportBytes; if no
\* spelling is present or that element's text is empty the call has failed as
\* EmptyPayload, without a result.
C9_PayloadPriority ==
  (dec.pc \in {"payload", "decoded", "done"} /\ Answered /\ IsOk(dec.answer.status)
     /\ ~HasFault(dec.doc)) =>
    LET p == PayloadByPriority(dec.doc)
    IN IF p.absent \/ p.text = ""
       THEN Finished /\ Failed("no-payload") /\ ErrorKind(dec.outcome.site) = "EmptyPayload"
       ELSE dec.base64Data = p.text /\ ~Failed("no-payload")

\* ns2:reportBytes stands before v2:reportBytes in the body and the v2 payload
\* has been taken
C9_Witness ==
  /\ dec.pc = "payload"
  /\ ElementsNamed(dec.doc, "reportBytes") = {}
  /\ ElementsNamed(dec.doc, "ns2:reportBytes") # {}
  /\ ElementsNamed(dec.doc, "v2:reportBytes") # {}
  /\ SetMin(ElementsNamed(dec.doc, "ns2:reportBytes")) < SetMin(ElementsNamed(dec.doc, "v2:reportBytes"))
  /\ dec.base64Data = encodeBase64(InnerRows)

\* C10: a payload that atob rejects is decoded to the empty string without an
\* exception, and the call then fails as MalformedReportXml; every decoded
\* string that is not well-formed XML ends the call as MalformedReportXml,
\* never with a result.
C10_LenientDecodeThenInnerParseError ==
  /\ (dec.pc = "decoded" /\ ~atob(dec.base64Data).ok) => dec.decodedXml = ""
  /\ (Finished /\ dec.base64Data # "" /\ ~atob(dec.base64Data).ok) =>
       /\ dec.decodedXml = ""
       /\ Failed("inner-parse")
  /\ (Finished /\ dec.base64Data # "" /\ ~WellFormed(dec.decodedXml)) =>
       /\ Failed("inner-parse")
       /\ ErrorKind(dec.outcome.site) = "MalformedReportXml"
       /\ dec.outcome.message = "Error parsing response XML from Oracle."

\* the payload "!!!!" has ended the call at the inner parse
C10_Witness ==
  /\ Finished
  /\ dec.base64Data = "!!!!"
  /\ dec.decodedXml = ""
  /\ Failed("inner-parse")


(***************************************************************************)
(* Properties of the App component (Spec).                                 *)
(***************************************************************************)
\* the statement a run of tab t has to send: t's statement under one wrapper
WrappedOnce(t) ==
  "SELECT * FROM (" \o Sanitize(t.query) \o ") WHERE rownum <= " \o ToString(t.rowLimit)

\* the statement a suspended call of handleRun has put on the wire
SentStatement(r) == decodeBase64(ConcatChunks(r.params.emitted)).value

SameInputs(before, after) ==
  /\ Len(after) = Len(before)
  /\ \A i \in 1..Len(before) :
       /\ after[i].id = before[i].id
       /\ after[i].query = before[i].query
       /\ after[i].rowLimit = before[i].rowLimit

\* C5: a step of a run (handleRun calling executeSoapQuery, or that call
\* returning or throwing) leaves every tab's query and rowLimit and the saved
\* connections as they were, and the statement a run sends is the tab's stored
\* statement under exactly one row-limit wrapper, however often the tab was run.
C5_RunKeepsTabInputs ==
  [][ inflight' # inflight =>
        /\ SameInputs(tabs, tabs')
        /\ savedConnections' = savedConnections
        /\ Len(inflight') > Len(inflight) =>
             /\ inflight'[Len(inflight')].config = activeConfig
             /\ SentStatement(inflight'[Len(inflight')]) = WrappedOnce(activeTab)
             /\ SentStatement(inflight'[Len(inflight')]) = WrappedOnce(activeTab)'
    ]_vars

\* the same tab is run a second time while its first run is still out, and
\* both runs carry the same parameters of a non-empty statement
C5_Witness ==
  /\ Len(inflight) = 2
  /\ inflight[1].tabId = inflight[2].tabId
  /\ inflight[1].params = inflight[2].params
  /\ Len(inflight[1].params.emitted) = 1
  /\ activeTab.id = inflight[1].tabId
  /\ activeTab.query = "SELECT 1;"
  /\ SentStatement(inflight[2]) = "SELECT * FROM (SELECT 1) WHERE rownum <= 100"

\* C6: every tab's rowLimit is a positive integer.
C6_RowLimitPositive ==
  \A i \in 1..Len(tabs) : tabs[i].rowLimit \in Nat \ {0}


(***************************************************************************)
(* Properties of parseOracleXML (SpecParse).                               *)
(***************************************************************************)
ParReturned == par.pc = "done" /\ par.outcome.kind = "result"

\* the row elements of a document: the child elements of its root, and the
\* cells: the child elements of the rows; both as sets of positions in
\* document order
RowElements(doc) == { k \in 1..Len(doc.elems) : doc.elems[k].parent = 1 }
CellElements(doc) ==
  { k \in 1..Len(doc.elems) : doc.elems[k].parent \in RowElements(doc) }
CellsNamed(doc, n) == { k \in CellElements(doc) : doc.elems[k].name = n }
CellsOf(doc, row) == { k \in 1..Len(doc.elems) : doc.elems[k].parent = row }

\* the k-th smallest member of a set of numbers
RECURSIVE NthOf(_, _)
NthOf(S, k) == IF k = 1 THEN SetMin(S) ELSE NthOf(S \ {SetMin(S)}, k - 1)

\* C11: in a result of parseOracleXML the column list holds every tag name of
\* the rows' child elements exactly once, ordered by the place where each name
\* first appears in the document; the report with the rows (A, B) and (A) has
\* the columns A, B.
C11_ColumnsFirstSeenOrder ==
  ParReturned =>
    LET columns == par.outcome.result.columns
        doc     == par.xmlDoc
    IN /\ { columns[i] : i \in 1..Len(columns) }
            = { doc.elems[k].name : k \in CellElements(doc) }
       /\ \A i, j \in 1..Len(columns) :
            i < j => SetMin(CellsNamed(doc, columns[i])) < SetMin(CellsNamed(doc, columns[j]))
       /\ par.xmlString = InnerRows => columns = <<"A", "B">>

\* a report whose second row has A before the B that the first row brought:
\* the columns are B, A, neither sorted nor the second row's order
C11_Witness ==
  /\ ParReturned
  /\ par.xmlString = "<ROWSET><ROW><B>2</B></ROW><ROW><A>1</A><B>2</B></ROW></ROWSET>"
  /\ par.outcome.result.columns = <<"B", "A">>

\* C12: a result of parseOracleXML has one row mapping for every child element
\* of the root, in document order; the keys of a mapping are exactly the tag
\* names of that row element's children, all of them columns.
C12_RowKeysAreOwnCells ==
  ParReturned =>
    LET result == par.outcome.result
        doc    == par.xmlDoc
        colSet == { result.columns[i] : i \in 1..Len(result.columns) }
    IN /\ Len(result.rows) = Cardinality(RowElements(doc))
       /\ \A i \in 1..Len(result.rows) :
            LET row == NthOf(RowElements(doc), i)
            IN /\ DOMAIN result.rows[i] = { doc.elems[k].name : k \in CellsOf(doc, row) }
               /\ DOMAIN result.rows[i] \subseteq colSet
               /\ \A k \in CellsOf(doc, row) :
                    \E c \in CellsOf(doc, row) :
                      /\ doc.elems[c].name = doc.elems[k].name
                      /\ result.rows[i][doc.elems[k].name] = doc.elems[c].text
       /\ par.xmlString = InnerRows =>
            result.rows = << [A |-> "1", B |-> "2"], [A |-> "3"] >>

\* the report of the specification: the second row has no B
C12_Witness ==
  /\ ParReturned
  /\ par.xmlString = InnerRows
  /\ Len(par.outcome.result.rows) = 2
  /\ DOMAIN par.outcome.result.rows[2] = {"A"}
  /\ par.outcome.result.columns = <<"A", "B">>

\* C13: a well-formed report whose root has no child element gives a result,
\* with no columns, no rows and the report text as rawXml; every result
\* carries the report text as rawXml.
C13_EmptyRootIsEmptyResult ==
  /\ (par.pc = "done" /\ WellFormed(par.xmlString) /\ RowElements(par.xmlDoc) = {}) =>
       /\ par.outcome.kind = "result"
       /\ par.outcome.result.columns = <<>>
       /\ par.outcome.result.rows = <<>>
       /\ par.outcome.result.rawXml = par.xmlString
  /\ ParReturned => par.outcome.result.rawXml = par.xmlString


(***************************************************************************)
(* More properties of executeSoapQuery from await fetch on (SpecDecode).   *)
(***************************************************************************)
\* what has gone wrong by the time the call is over
FetchFailed == dec.answer.rejected
StatusNotOk == ~dec.answer.rejected /\ ~IsOk(dec.answer.status)
FaultFound == dec.doc # NoDoc /\ HasFault(dec.doc)
PayloadMissing ==
  /\ dec.doc # NoDoc
  /\ ~HasFault(dec.doc)
  /\ PayloadByPriority(dec.doc).absent \/ PayloadByPriority(dec.doc).text = ""
InnerParseFailed == dec.base64Data # "" /\ ~WellFormed(dec.decodedXml)

C16_OneRequestNoRetry ==
  /\ [](dec.pc # "idle" => dec.fetches <= 1)
  /\ [](Finished => dec.fetches = 1)
  /\ [][ ( \/ dec.pc = "fetched" /\ (FetchFailed \/ StatusNotOk)
           \/ dec.pc = "parsed" /\ FaultFound )
         => /\ dec'.pc = "done"
            /\ dec'.outcome.kind = "error"
            /\ dec'.fetches = dec.fetches ]_vars

\* the fetch was rejected, and the call is over after its one request
C16_Witness ==
  /\ Finished
  /\ dec.answer.rejected
  /\ dec.fetches = 1
  /\ dec.outcome.kind = "error"
  /\ ErrorKind(dec.outcome.site) = "NetworkError"

\* the text between the first <faultstring> and the next </faultstring> of a
\* body that holds a faultstring element
HasFaultString(body) ==
  /\ Contains(body, "<faultstring>")
  /\ indexOf(body, "</faultstring>", indexOf(body, "<faultstring>", 1) + 13) # 0
FaultStringOf(body) ==
  LET open == indexOf(body, "<faultstring>", 1)
  IN SubSeq(body, open + 13, indexOf(body, "</faultstring>", open + 13) - 1)

\* C20, as stated: a response whose status is not 2xx ends the call with an
\* Error that carries the status; the message carries the text of the
\* faultstring element if the body has one, and the raw body otherwise; the
\* body is not parsed and there is no result.
C20_NotOkCarriesFaultOrBody ==
  (Finished /\ StatusNotOk) =>
    /\ dec.outcome.kind = "error"
    /\ ErrorKind(dec.outcome.site) = "HttpError"
    /\ dec.outcome.result = NoResult
    /\ dec.doc = NoDoc /\ dec.base64Data = ""
    /\ dec.outcome.message =
         "Server returned " \o ToString(dec.answer.status) \o ": "
           \o (IF HasFaultString(dec.answer.body) THEN FaultStringOf(dec.answer.body)
               ELSE dec.answer.body)

\* C20, amended: as above, but the message carries the fault text only if
\* that text is not empty; a body whose first faultstring element is empty is
\* reported raw, like a body without one.
C20_NotOkCarriesNonEmptyFaultOrBody ==
  (Finished /\ StatusNotOk) =>
    /\ dec.outcome.kind = "error"
    /\ ErrorKind(dec.outcome.site) = "HttpError"
    /\ dec.outcome.result = NoResult
    /\ dec.doc = NoDoc /\ dec.base64Data = ""
    /\ dec.outcome.message =
         "Server returned " \o ToString(dec.answer.status) \o ": "
           \o (IF HasFaultString(dec.answer.body) /\ FaultStringOf(dec.answer.body) # ""
               THEN FaultStringOf(dec.answer.body)
               ELSE dec.answer.body)

\* status 500 with a fault string and a payload in the body: the message is
\* the fault text, and the payload was not looked at
C20_Witness ==
  /\ Finished
  /\ dec.answer.status = 500
  /\ dec.answer.body = "<env><faultstring>ORA-00942</faultstring><reportBytes>"
                          \o encodeBase64(InnerEmpty) \o "</reportBytes></env>"
  /\ dec.outcome.message = "Server returned 500: ORA-00942"
  /\ dec.base64Data = ""


(***************************************************************************)
(* Properties of the runs of the App component (Spec).                     *)
(***************************************************************************)
\* C15: no two of the requests in flight belong to the same tab.
C15_OneRequestPerTab ==
  \A i, j \in 1..Len(inflight) : i # j => inflight[i].tabId # inflight[j].tabId

\* the request of the suspended call k, and the tabs it was not started from
Settled(k) == inflight' = RemoveAt(inflight, k)

\* C17: the step in which a run comes back (with a result or with an Error)
\* writes to the tab the run was started from, whichever tab is active by
\* then: that tab stops loading and has the result or the error, every other
\* tab is left as it was, and so are the active tab and the other runs.
C17_RunWritesOwnTabOnly ==
  [][ Len(inflight') < Len(inflight) =>
        \E k \in 1..Len(inflight) :
          /\ Settled(k)
          /\ Len(tabs') = Len(tabs)
          /\ activeTabId' = activeTabId
          /\ \A i \in 1..Len(tabs) :
               IF tabs[i].id = inflight[k].tabId
               THEN /\ tabs'[i].id = tabs[i].id
                    /\ tabs'[i].query = tabs[i].query
                    /\ ~tabs'[i].isLoading
                    /\ \/ tabs'[i].result # Null /\ tabs'[i].error = tabs[i].error
                       \/ tabs'[i].error # Null /\ tabs'[i].result = Null
               ELSE tabs'[i] = tabs[i]
    ]_vars

\* two tabs were run; the run of the tab that is not active has come back
\* with its result while the run of the active tab is still out
C17_Witness ==
  /\ Len(tabs) = 2
  /\ Len(inflight) = 1
  /\ activeTabId = tabs[2].id
  /\ inflight[1].tabId = tabs[2].id
  /\ tabs[2].isLoading /\ tabs[2].result = Null
  /\ tabs[1].result # Null /\ ~tabs[1].isLoading


(***************************************************************************)
(* Properties of the URL of the request (SpecRequest).                     *)
(***************************************************************************)
\* s without one trailing slash
WithoutOneSlash(s) ==
  IF Len(s) > 0 /\ CharAt(s, Len(s)) = "/" THEN SubSeq(s, 1, Len(s) - 1) ELSE s

TrimmedProxy == IF req.corsProxy = Null THEN "" ELSE trim(req.corsProxy[1])

\* C19: without a proxy the request goes to the resolved target URL; with
\* the proxy https://corsproxy.io to https://corsproxy.io/? followed by the
\* target; with another proxy to the proxy followed by the target, a slash
\* between them unless the proxy ends in ?, = or /.  The target is appended
\* as it is.
C19_FetchUrlByProxy ==
  req.pc = "ready" =>
    req.fetchUrl =
      IF TrimmedProxy = "" THEN req.targetUrl
      ELSE IF TrimmedProxy = "https://corsproxy.io"
        THEN "https://corsproxy.io/?" \o req.targetUrl
      ELSE IF CharAt(TrimmedProxy, Len(TrimmedProxy)) \in {"?", "=", "/"}
        THEN TrimmedProxy \o req.targetUrl
      ELSE TrimmedProxy \o "/" \o req.targetUrl

\* the example of the specification
C19_Witness ==
  /\ req.pc = "ready"
  /\ req.corsProxy = Some("https://corsproxy.io")
  /\ req.url = "https://h.example.com"
  /\ req.fetchUrl =
       "https://corsproxy.io/?https://h.example.com/xmlpserver/services/v2/ReportService"
(***************************************************************************)
(* C21.  decodeBase64 after encodeBase64.                                  *)
(***************************************************************************)
\* C21: for every text, decoding the encoding of the text gives the text back,
\* texts with characters of more than one byte included.
C21_DecodeInvertsEncode ==
  b64.pc = "decoded" => b64.decoded = b64.str

\* the same for the texts that do not start with a byte order mark
RoundTripWithoutLeadingBom ==
  (b64.pc = "decoded" /\ ~startsWith(b64.str, ByteOrderMark)) => b64.decoded = b64.str

(***************************************************************************)
(* C22.  The body of the request made from the connection's template.      *)
(***************************************************************************)
Placeholders == {"{{USERNAME}}", "{{PASSWORD}}", "{{PARAMETERS}}"}

\* the template with every placeholder of it replaced by its value, the
\* values themselves left as they are
RECURSIVE FilledVerbatim(_, _)
FilledVerbatim(template, value) ==
  LET at == { indexOf(template, p, 1) : p \in Placeholders } \ {0}
  IN IF at = {} THEN template
     ELSE LET k == SetMin(at)
              p == CHOOSE x \in Placeholders : indexOf(template, x, 1) = k
          IN SubSeq(template, 1, k - 1) \o value[p]
               \o FilledVerbatim(SubSeq(template, k + Len(p), Len(template)), value)

UsesTemplate == includes(req.soapTemplate, "{{PARAMETERS}}")

\* C22: when the template holds {{PARAMETERS}}, the body is the template with
\* the username, the password and the parameter XML put in character for
\* character at their placeholders, the rest of the template unchanged.
C22_TemplateFilledVerbatim ==
  (req.pc \in {"body", "target", "ready"} /\ UsesTemplate) =>
    req.soapBody =
      FilledVerbatim(req.soapTemplate,
                     [p \in Placeholders |->
                        IF p = "{{USERNAME}}" THEN req.username
                        ELSE IF p = "{{PASSWORD}}" THEN req.password
                        ELSE req.parametersXml])

\* the same for values without a dollar sign and without a placeholder
PlainValuesFilledVerbatim ==
  (req.pc \in {"body", "target", "ready"} /\ UsesTemplate
     /\ \A v \in {req.username, req.password} :
          ~includes(v, "$") /\ \A p \in Placeholders : ~includes(v, p)) =>
    req.soapBody =
      FilledVerbatim(req.soapTemplate,
                     [p \in Placeholders |->
                        IF p = "{{USERNAME}}" THEN req.username
                        ELSE IF p = "{{PASSWORD}}" THEN req.password
                        ELSE req.parametersXml])

(***************************************************************************)
(* C23.  The fault scan comes before the payload.                          *)
(***************************************************************************)
FaultElements(doc) == ElementsNamed(doc, "faultstring") \cup ElementsNamed(doc, "soapenv:Fault")

\* the document holds an element of a payload spelling with text in it
HasPayload(doc) ==
  \E i \in 1..3 : \E k \in ElementsNamed(doc, Spellings[i]) : doc.elems[k].text # ""

FaultWithPayload ==
  /\ Answered /\ IsOk(dec.answer.status)
  /\ dec.pc \in {"parsed", "payload", "decoded", "done"}
  /\ HasFault(dec.doc) /\ HasPayload(dec.doc)

\* C23: a 2xx response that holds a fault element and a reportBytes element
\* with text fails as ServerFault with the text of a fault element; its
\* payload is never taken or decoded and no result is made.
C23_FaultBeforePayload ==
  FaultWithPayload =>
    /\ dec.pc \in {"parsed", "done"}
    /\ dec.base64Data = "" /\ dec.decodedXml = ""
    /\ Finished =>
         /\ dec.outcome.kind = "error"
         /\ ErrorKind(dec.outcome.site) = "ServerFault"
         /\ \E k \in FaultElements(dec.doc) :
              dec.outcome.message = "Oracle SOAP Fault: " \o dec.doc.elems[k].text

\* a payload that would decode to rows stands before the fault string, and
\* the call has failed with the fault
C23_Witness ==
  /\ Finished /\ FaultWithPayload
  /\ dec.answer.body = "<env><v2:reportBytes>" \o encodeBase64(InnerRows)
                         \o "</v2:reportBytes><faultstring>ORA-00942</faultstring></env>"
  /\ dec.outcome.message = "Oracle SOAP Fault: ORA-00942"

(***************************************************************************)
(* Properties of the tabs of the App component (Spec).                     *)
(***************************************************************************)
\* C24: no tab holds a result and an error at once.
C24_ResultOrErrorNotBoth ==
  \A i \in 1..Len(tabs) : ~(tabs[i].result # Null /\ tabs[i].error # Null)

RunsOf(id) == { k \in 1..Len(inflight) : inflight[k].tabId = id }
ExplanationsOf(id) == { k \in 1..Len(explaining) : explaining[k] = id }

\* C25: a tab with a request in flight is loading, and a tab with no request
\* and no explanation pending is not.
C25_LoadingWhilePending ==
  \A i \in 1..Len(tabs) :
    /\ RunsOf(tabs[i].id) # {} => tabs[i].isLoading
    /\ (RunsOf(tabs[i].id) = {} /\ ExplanationsOf(tabs[i].id) = {}) => ~tabs[i].isLoading

TabIds(list) == { list[i].id : i \in 1..Len(list) }

\* C26: there is always a tab and the active tab is always one of the tabs;
\* a step that closes a tab is taken with more than one tab, removes one tab,
\* and makes the last remaining tab active when the closed tab was the
\* active one.
C26_ActiveTabIsATab ==
  /\ [](Len(tabs) >= 1 /\ activeTabId \in TabIds(tabs))
  /\ [][ Len(tabs') < Len(tabs) =>
           /\ Len(tabs) > 1
           /\ Len(tabs') = Len(tabs) - 1
           /\ activeTabId' = IF activeTabId \in TabIds(tabs') THEN activeTabId
                             ELSE tabs'[Len(tabs')].id
       ]_vars

\* the first tab, while active, was closed and the last of the two others is
\* the active tab
C26_Witness ==
  /\ Len(tabs) = 2
  /\ tabs[1].id = "id-1" /\ tabs[2].id = "id-2"
  /\ activeTabId = "id-2"

\* C27: the step in which a run comes back leaves the view of every tab as
\* it is at that moment.
C27_CompletionKeepsView ==
  [][ Len(inflight') < Len(inflight) =>
        \A i \in 1..Len(tabs) : tabs'[i].view = tabs[i].view ]_vars

\* C28: the step in which the run of a tab that has been closed comes back
\* leaves the tabs as they are: the closed tab is not there again and no
\* other tab is written to.
C28_ClosedTabRunChangesNothing ==
  [][ \A k \in 1..Len(inflight) :
        (Settled(k) /\ inflight[k].tabId \notin TabIds(tabs)) =>
          tabs' = tabs /\ activeTabId' = activeTabId ]_vars

\* the first tab was run and then closed; its run has not come back yet
C28_Witness ==
  /\ Len(tabs) = 1 /\ tabs[1].id = "id-1"
  /\ Len(inflight) = 1 /\ inflight[1].tabId = "tab-1"

\* C29: with an active connection without a username, a call of handleRun
\* opens the settings dialog and leaves the tabs and the requests as they
\* are; no step taken with such a connection starts a request.
C29_NoUsernameOpensSettings ==
  /\ [][ (activeConfig.username = "" /\ handleRun) =>
           /\ isSettingsOpen'
           /\ UNCHANGED <<tabs, activeTabId, inflight, explaining, savedConnections,
                          activeConnectionId>> ]_vars
  /\ [][ activeConfig.username = "" => Len(inflight') <= Len(inflight) ]_vars

\* the connection without a username is the active one, the dialog is open
\* and nothing has been sent
C29_Witness ==
  /\ activeConnectionId = "conn-b" /\ activeConfig.username = ""
  /\ isSettingsOpen
  /\ inflight = <<>>
  /\ \A i \in 1..Len(tabs) : ~tabs[i].isLoading /\ tabs[i].result = Null /\ tabs[i].error = Null

(***************************************************************************)
(* C30.  The connections of the settings dialog (SpecSettings).            *)
(***************************************************************************)
SavedIds == { savedConnections[i].id : i \in 1..Len(savedConnections) }

\* no two saved connections share an id
SavedIdsDistinct ==
  \A i, j \in 1..Len(savedConnections) :
    i # j => savedConnections[i].id # savedConnections[j].id

\* C30: the active connection id is empty or the id of a saved connection,
\* and the saved connections have different ids.
C30_ActiveConnectionIsSaved ==
  /\ activeConnectionId = "" \/ activeConnectionId \in SavedIds
  /\ SavedIdsDistinct

====
